---- MODULE Spec2Model ----
(***************************************************************************)
(* The action-sequence feature and label pipeline of the tutorials:        *)
(* tutorial 2's create_features_match, label_scores and label_concedes,    *)
(* its per-match generation loop, and tutorial 1's prediction storage.     *)
(*                                                                         *)
(* Tables are sequences of rows; row k of a table is the row with index    *)
(* k-1 of the pandas table (a RangeIndex after reset_index(drop=True)).    *)
(* A row is a function from column names to cells.  A cell is a set: the   *)
(* empty set is the missing value (NaN), {v} is the value v.  Arithmetic   *)
(* on cells therefore propagates NaN, and a comparison with NaN is false,  *)
(* as in pandas.                                                           *)
(***************************************************************************)
EXTENDS Integers, Sequences, FiniteSets, TLC

VARIABLES
    df_actions,     \* the action table of the match handed to the functions
    nr_actions,     \* the horizon handed to label_scores / label_concedes
    cell,           \* the last feature cell of tutorial 2 that was executed
    df_features,    \* the table the feature cells build in place
    features_match,  \* what create_features_match returned
    df_scores,      \* what label_scores returned
    df_concedes,    \* what label_concedes returned
    spadlstore,     \* per run: spadl.h5, key -> action table
    df_games,       \* per run: the game ids listed by df_games, in order
    game_pos,       \* per run: number of iterations the generation loop made
    features_h5,    \* per run: features.h5, key -> table
    labels_h5,      \* per run: labels.h5, key -> table
    tutorial1,      \* the tables, files and position of tutorial 1
    tutorial3,      \* the tables and models of tutorial 3
    tutorial4       \* the tables of tutorial 4

matchVars == <<df_actions, nr_actions, cell, df_features,
               features_match, df_scores, df_concedes>>
loopVars == <<spadlstore, df_games, game_pos, features_h5, labels_h5>>
tutorialVars == <<tutorial3, tutorial4>>
vars == <<matchVars, loopVars, tutorial1, tutorialVars>>

(***************************************************************************)
(* Bounds of the model.                                                    *)
(***************************************************************************)
MaxActions == 3         \* longest match handed to the label functions
MaxHorizon == 3         \* largest horizon handed to the label functions
MaxFeatureActions == 4  \* longest match handed to the feature functions
MaxLoopActions == 2     \* longest match of a stored game
MaxPipelineActions == 2 \* longest match of a game of tutorial 1
MaxTimeActions == 2     \* longest match handed to add_time_played

(***************************************************************************)
(* Cells and pandas Series.                                                *)
(***************************************************************************)
NaN == {}
\* A table that was not computed yet: tables of matches have a row at least.
NotComputed == <<>>

\* A shift that wraps around the table, as np.roll does.
shift_wrap(col, periods) ==
    [k \in 1..Len(col) |-> {col[((k - periods - 1) % Len(col)) + 1]}]

\* Series.shift(periods): row k takes the value of row k - periods, and is
\* missing when that row does not exist.
shift(col, periods) ==
    [k \in 1..Len(col) |->
        IF k - periods \in 1..Len(col) THEN {col[k - periods]} ELSE NaN]

\* The name of the result of a binary operation of two Series.
result_name(a, b) == IF a = b THEN a ELSE NaN

\* A logical operand that is missing counts as False.
truth(value) == TRUE \in value

series_and(s, t) ==
    [name |-> result_name(s.name, t.name),
     values |-> [k \in 1..Len(s.values) |->
                    {truth(s.values[k]) /\ truth(t.values[k])}]]

series_or(s, t) ==
    [name |-> result_name(s.name, t.name),
     values |-> [k \in 1..Len(s.values) |->
                    {truth(s.values[k]) \/ truth(t.values[k])}]]

\* ==, != of two Series: a missing operand compares unequal.
series_eq(s, t) ==
    [name |-> result_name(s.name, t.name),
     values |-> [k \in 1..Len(s.values) |->
                    {s.values[k] # NaN /\ s.values[k] = t.values[k]}]]

series_ne(s, t) ==
    [name |-> result_name(s.name, t.name),
     values |-> [k \in 1..Len(s.values) |->
                    {~(s.values[k] # NaN /\ s.values[k] = t.values[k])}]]

\* pd.DataFrame(data, columns=[column]) of a Series: a named Series is taken
\* as the dict {name: data}, of which only the column asked for is kept (all
\* missing when the names differ); an unnamed Series gives the column itself.
DataFrame(data, column) ==
    [k \in 1..Len(data.values) |->
        [c \in {column} |->
            IF data.name = NaN \/ data.name = {column}
            THEN data.values[k] ELSE NaN]]

Min(a, b) == IF a <= b THEN a ELSE b
Max(a, b) == IF a >= b THEN a ELSE b

\* Row k of a table, and a row of missing cells past its end.
reindexed(table, k) ==
    IF k <= Len(table) THEN table[k] ELSE [c \in DOMAIN table[1] |-> NaN]

\* pd.concat([a, b], axis=1): the rows are aligned on the index, and a table
\* that has no row of an index gets missing cells there.
concat_columns(a, b) ==
    LET rows == Max(Len(a), Len(b))
    IN  IF Len(a) = Len(b) THEN [k \in 1..rows |-> a[k] @@ b[k]]
        ELSE [k \in 1..rows |-> reindexed(a, k) @@ reindexed(b, k)]

(***************************************************************************)
(* Labels: label_scores and label_concedes.                                *)
(***************************************************************************)
\* The action types whose name contains 'shot'.
ShotTypeNames == {"shot", "shot_penalty", "shot_freekick"}

str_contains_shot(type_name) == type_name \in ShotTypeNames

goals(actions) ==
    [k \in 1..Len(actions) |->
        str_contains_shot(actions[k].type_name) /\ actions[k].result_id = 1]

owngoals(actions) ==
    [k \in 1..Len(actions) |->
        str_contains_shot(actions[k].type_name) /\ actions[k].result_id = 2]

\* y: the columns goal, owngoal and team_id.
label_frame(actions) ==
    [goal |-> goals(actions),
     owngoal |-> owngoals(actions),
     team_id |-> [k \in 1..Len(actions) |-> actions[k].team_id]]

\* The first row's value taken for the last row's.
fill_value_first(col) == col[1]

\* y[col][len(y) - 1]: the last row's value, which fills the shifted tail.
fill_value(col) == col[Len(col)]

\* shifted = y[col].shift(-i); shifted[-i:] = y[col][len(y) - 1]:
\* the column y[f'{col}+{i}'].
future(name, col, i) ==
    LET shifted == shift(col, -i)
    IN  [name |-> {name \o "+" \o ToString(i)},
         values |-> [k \in 1..Len(col) |->
                        IF k > Len(col) - i THEN {fill_value(col)}
                        ELSE shifted[k]]]

column(name, col) ==
    [name |-> {name}, values |-> [k \in 1..Len(col) |-> {col[k]}]]

RECURSIVE scores_loop(_, _, _, _)
scores_loop(y, scores, i, n) ==
    IF i >= n THEN scores
    ELSE LET same == series_eq(future("team_id", y.team_id, i), column("team_id", y.team_id))
             other == series_ne(future("team_id", y.team_id, i), column("team_id", y.team_id))
             goal_scored == series_and(future("goal", y.goal, i), same)
             own_goal_opponent == series_and(future("owngoal", y.owngoal, i), other)
         IN  scores_loop(y, series_or(series_or(scores, goal_scored),
                                      own_goal_opponent), i + 1, n)

label_scores(actions, n) ==
    LET y == label_frame(actions)
    IN  DataFrame(scores_loop(y, column("goal", y.goal), 1, n), "scores")

RECURSIVE concedes_loop(_, _, _, _)
concedes_loop(y, concedes, i, n) ==
    IF i >= n THEN concedes
    ELSE LET same == series_eq(future("team_id", y.team_id, i), column("team_id", y.team_id))
             other == series_ne(future("team_id", y.team_id, i), column("team_id", y.team_id))
             goal_opponent == series_and(future("goal", y.goal, i), other)
             own_goal_team == series_and(future("owngoal", y.owngoal, i), same)
         IN  concedes_loop(y, series_or(series_or(concedes, goal_opponent),
                                        own_goal_team), i + 1, n)

label_concedes(actions, n) ==
    LET y == label_frame(actions)
    IN  DataFrame(concedes_loop(y, column("owngoal", y.owngoal), 1, n), "concedes")

(***************************************************************************)
(* Features: create_features_match and the functions it calls.             *)
(***************************************************************************)
PITCH_LENGTH == 105
PITCH_WIDTH == 68
GOAL_X == PITCH_LENGTH
GOAL_Y == PITCH_WIDTH \div 2

delays == 3

\* features_to_delay without the identifier of the result.
features_to_delay_without_result_id ==
    <<"game_id", "period_id", "time_seconds", "team_id",
      "player_id", "start_x", "start_y", "end_x", "end_y", "bodypart_id",
      "type_id", "type_name", "result_name", "bodypart_name",
      "time_played">>

features_to_delay ==
    <<"game_id", "period_id", "time_seconds", "team_id",
      "player_id", "start_x", "start_y", "end_x", "end_y", "bodypart_id",
      "type_id", "result_id", "type_name", "result_name", "bodypart_name",
      "time_played">>

Range(seq) == {seq[k] : k \in 1..Len(seq)}

\* The column name f'{feature}-{step}'.
ColName(feature, step) == feature \o "-" \o ToString(step)

\* Floating-point results: a quotient is the fraction in lowest terms (an
\* infinity has the denominator 0), a square root is kept as its radicand.
RECURSIVE gcd(_, _)
gcd(a, b) == IF b = 0 THEN a ELSE gcd(b, a % b)

abs(a) == IF a < 0 THEN -a ELSE a

\* a / b for b > 0.
quotient(a, b) ==
    LET g == gcd(abs(a), b)
    IN  [num |-> a \div g, den |-> b \div g]

zero == [num |-> 0, den |-> 1]

sqrt(a) == [sqrt_of |-> a]

\* Cell arithmetic: a missing operand gives a missing result.
cell_sub(a, b) == {x - y : x \in a, y \in b}
cell_div(a, b) == {quotient(x, b) : x \in a}
cell_abs(a) == {abs(x) : x \in a}
cell_hypot(a, b) == {sqrt(x * x + y * y) : x \in a, y \in b}

\* np.divide(a, b) without the where: a division by 0 gives an infinity.
divide_unguarded(a, b) ==
    {IF y = 0 THEN [num |-> x \div abs(x), den |-> 0] ELSE quotient(x, y) :
        x \in a, y \in b}

\* np.divide(a, b, out=zeros, where=(b != 0)): 0 where b is 0, a / b
\* elsewhere; NaN != 0 is true, so a missing b divides and gives NaN.
divide_or_zero(a, b) ==
    IF b = {0} THEN {zero} ELSE {quotient(x, y) : x \in a, y \in b}

\* pd.get_dummies(df_actions['type_name']) merged on the index: one 0/1
\* column per type name that occurs in the table.
add_action_type_dummies(actions) ==
    LET names == {actions[k].type_name : k \in 1..Len(actions)}
    IN  [k \in 1..Len(actions) |->
            [t \in names |-> IF actions[k].type_name = t THEN 1 ELSE 0]
            @@ actions[k]]

\* time_played without the offset of the second half of extra time.
time_played_three_offsets(row) ==
    row.time_seconds
    + (IF row.period_id >= 2 THEN 45 * 60 ELSE 0)
    + (IF row.period_id >= 3 THEN 15 * 60 ELSE 0)

time_played(row) ==
    row.time_seconds
    + (IF row.period_id >= 2 THEN 45 * 60 ELSE 0)
    + (IF row.period_id >= 3 THEN 15 * 60 ELSE 0)
    + (IF row.period_id = 4 THEN 15 * 60 ELSE 0)

add_time_played(actions) ==
    [k \in 1..Len(actions) |->
        ("time_played" :> time_played(actions[k])) @@ actions[k]]

\* The columns features[j], features[j+1], ... of the rows in `shifted` (one
\* row, or none where the shift left the row missing) under the names
\* f'{feature}-{step}'.
RECURSIVE add_suffix(_, _, _, _)
add_suffix(shifted, features, j, step) ==
    LET this == ColName(features[j], step) :> {row[features[j]] : row \in shifted}
    IN  IF j = Len(features) THEN this
        ELSE this @@ add_suffix(shifted, features, j + 1, step)

\* Delayed features that look ahead: shift(-step).
delayed_ahead(actions, features, step) ==
    LET shifted == shift(actions, -step)
    IN  [k \in 1..Len(actions) |-> add_suffix(shifted[k], features, 1, step)]

\* df_actions[features_to_delay].shift(step).add_suffix(f'-{step}')
delayed(actions, features, step) ==
    LET shifted == shift(actions, step)
    IN  [k \in 1..Len(actions) |-> add_suffix(shifted[k], features, 1, step)]

RECURSIVE concat_delays(_, _, _, _)
concat_delays(actions, features, step, n) ==
    IF step = n - 1 THEN delayed(actions, features, step)
    ELSE concat_columns(delayed(actions, features, step),
                        concat_delays(actions, features, step + 1, n))

create_delayed_features(actions, features, n) ==
    concat_delays(actions, features, 0, n)

\* The comparison of the team identifiers with a missing slot counted as
\* the team of slot 0.
same_team_or_missing(row, step) ==
    {\/ row[ColName("team_id", step)] = NaN
     \/ row["team_id-0"] = row[ColName("team_id", step)]}

\* df_features[f'team-{step}'] = df_features['team_id-0'] == df_features[f'team_id-{step}']
same_team(row, step) ==
    {row["team_id-0"] # NaN /\ row["team_id-0"] = row[ColName("team_id", step)]}

add_same_team(features, n) ==
    [k \in 1..Len(features) |->
        [c \in {ColName("team", step) : step \in 1..(n - 1)} |->
            LET step == CHOOSE step \in 1..(n - 1) : ColName("team", step) = c
            IN  same_team(features[k], step)]
        @@ features[k]]

\* invert_coordinates with the width taken for the length.
invert_step_width(row, step) ==
    IF truth(row[ColName("team", step)]) THEN row
    ELSE [c \in {ColName("start_x", step), ColName("end_x", step),
                 ColName("start_y", step), ColName("end_y", step)} |->
             cell_sub({PITCH_WIDTH}, row[c])]
         @@ row

\* invert_coordinates writing the slot-0 columns.
invert_step_anchor(row, step) ==
    IF truth(row[ColName("team", step)]) THEN row
    ELSE [c \in {"start_x-0", "end_x-0"} |-> cell_sub({PITCH_LENGTH}, row[c])]
         @@ [c \in {"start_y-0", "end_y-0"} |-> cell_sub({PITCH_WIDTH}, row[c])]
         @@ row

\* invert_coordinates marking the slots it has mirrored as slots of the
\* team of slot 0.
invert_step_marked(row, step) ==
    IF truth(row[ColName("team", step)]) THEN row
    ELSE [c \in {ColName("start_x", step), ColName("end_x", step)} |->
             cell_sub({PITCH_LENGTH}, row[c])]
         @@ [c \in {ColName("start_y", step), ColName("end_y", step)} |->
             cell_sub({PITCH_WIDTH}, row[c])]
         @@ (ColName("team", step) :> {TRUE})
         @@ row

\* invert_coordinates reading a missing coordinate as 0.
invert_step_filled(row, step) ==
    IF truth(row[ColName("team", step)]) THEN row
    ELSE [c \in {ColName("start_x", step), ColName("end_x", step)} |->
             cell_sub({PITCH_LENGTH}, IF row[c] = NaN THEN {0} ELSE row[c])]
         @@ [c \in {ColName("start_y", step), ColName("end_y", step)} |->
             cell_sub({PITCH_WIDTH}, IF row[c] = NaN THEN {0} ELSE row[c])]
         @@ row

\* One step of invert_coordinates on one row: the rows selected by
\* ~df_features[f'team-{step}'] get PITCH_LENGTH - x and PITCH_WIDTH - y.
invert_step(row, step) ==
    IF truth(row[ColName("team", step)]) THEN row
    ELSE [c \in {ColName("start_x", step), ColName("end_x", step)} |->
             cell_sub({PITCH_LENGTH}, row[c])]
         @@ [c \in {ColName("start_y", step), ColName("end_y", step)} |->
             cell_sub({PITCH_WIDTH}, row[c])]
         @@ row

RECURSIVE invert_row(_, _, _)
invert_row(row, step, n) ==
    IF step >= n THEN row ELSE invert_row(invert_step(row, step), step + 1, n)

invert_coordinates(features, n) ==
    [k \in 1..Len(features) |-> invert_row(features[k], 1, n)]

\* The columns add_location_features adds for one step and one side.
location_side(row, side, step) ==
    LET x == row[ColName(side \o "_x", step)]
        y == row[ColName(side \o "_y", step)]
        diff_x == cell_sub({GOAL_X}, x)
        diff_y == cell_abs(cell_sub({GOAL_Y}, y))
    IN  (ColName(side \o "_x_norm", step) :> cell_div(x, PITCH_LENGTH))
        @@ (ColName(side \o "_y_norm", step) :> cell_div(y, PITCH_WIDTH))
        @@ (ColName(side \o "_distance_to_goal", step) :> cell_hypot(diff_x, diff_y))
        @@ (ColName(side \o "_angle_to_goal", step) :> divide_or_zero(diff_x, diff_y))

location_step(row, step) ==
    LET dx == cell_sub(row[ColName("end_x", step)], row[ColName("start_x", step)])
        dy == cell_sub(row[ColName("end_y", step)], row[ColName("start_y", step)])
    IN  location_side(row, "start", step)
        @@ location_side(row, "end", step)
        @@ (ColName("diff_x", step) :> dx)
        @@ (ColName("diff_y", step) :> dy)
        @@ (ColName("distance_covered", step) :> cell_hypot(dx, dy))

RECURSIVE location_row(_, _, _)
location_row(row, step, n) ==
    IF step >= n THEN row
    ELSE location_row(location_step(row, step) @@ row, step + 1, n)

add_location_features(features, n) ==
    [k \in 1..Len(features) |-> location_row(features[k], 0, n)]

\* add_sequence_pre_features reading the newest delayed slot instead of
\* the oldest one.
add_sequence_pre_features_newest(features, n) ==
    LET delay == 1
    IN  [k \in 1..Len(features) |->
            LET row == features[k]
            IN  ("xdiff_sequence_pre" :>
                    cell_sub(row["start_x-0"], row[ColName("start_x", delay)]))
                @@ ("ydiff_sequence_pre" :>
                    cell_sub(row["start_y-0"], row[ColName("start_y", delay)]))
                @@ ("time_sequence_pre" :>
                    cell_sub(row["time_played-0"], row[ColName("time_played", delay)]))
                @@ row]

add_sequence_pre_features(features, n) ==
    LET delay == n - 1
    IN  [k \in 1..Len(features) |->
            LET row == features[k]
            IN  ("xdiff_sequence_pre" :>
                    cell_sub(row["start_x-0"], row[ColName("start_x", delay)]))
                @@ ("ydiff_sequence_pre" :>
                    cell_sub(row["start_y-0"], row[ColName("start_y", delay)]))
                @@ ("time_sequence_pre" :>
                    cell_sub(row["time_played-0"], row[ColName("time_played", delay)]))
                @@ row]

add_sequence_post_features(features, n) ==
    LET delay == n - 1
    IN  [k \in 1..Len(features) |->
            LET row == features[k]
            IN  ("xdiff_sequence_post" :>
                    cell_sub(row["end_x-0"], row[ColName("start_x", delay)]))
                @@ ("ydiff_sequence_post" :>
                    cell_sub(row["end_y-0"], row[ColName("start_y", delay)]))
                @@ row]

\* create_features_match with the location features added before the
\* coordinates are inverted.
create_features_match_located_first(actions, features, n) ==
    LET df_action_features == add_time_played(add_action_type_dummies(actions))
        df_gamestate_features == create_delayed_features(df_action_features, features, n)
        located == add_location_features(df_gamestate_features, n)
        inverted == invert_coordinates(add_same_team(located, n), n)
    IN  add_sequence_post_features(add_sequence_pre_features(inverted, n), n)

create_features_match(actions, features, n) ==
    LET df_action_features == add_time_played(add_action_type_dummies(actions))
        df_gamestate_features == create_delayed_features(df_action_features, features, n)
        with_team == add_same_team(df_gamestate_features, n)
        inverted == invert_coordinates(with_team, n)
        located == add_location_features(inverted, n)
    IN  add_sequence_post_features(add_sequence_pre_features(located, n), n)

(***************************************************************************)
(* The action tables the specifications start from.  An action table is    *)
(* in chronological order; the names of types, results and body parts are  *)
(* the ones the merges with the actiontypes, results and bodyparts tables  *)
(* attach to the ids.                                                      *)
(***************************************************************************)
Teams == {1, 2}
TypeNames == {"pass", "shot", "shot_penalty"}
ResultIds == {0, 1, 2}

\* The rows of the actiontypes, results and bodyparts tables that the
\* action tables use: id -> name.
actiontypes == (0 :> "pass") @@ (11 :> "shot") @@ (12 :> "shot_penalty")
results == (0 :> "fail") @@ (1 :> "success") @@ (2 :> "owngoal")
bodyparts == (0 :> "foot")

\* .merge(actiontypes, how='left').merge(results, how='left')
\* .merge(bodyparts, how='left'): the names of the ids, added to each row.
merge_names(row) ==
    ("type_name" :> actiontypes[row.type_id])
    @@ ("result_name" :> results[row.result_id])
    @@ ("bodypart_name" :> bodyparts[row.bodypart_id])
    @@ row

\* Row k of the stored action table of game game_id.
StoredAction(game_id, k, team, type_name, result_id, loc) ==
    [game_id |-> game_id,
     period_id |-> IF k <= 2 THEN 1 ELSE 2,
     time_seconds |-> 7 * k,
     team_id |-> team,
     player_id |-> 10 * team + (k % 2),
     start_x |-> loc[1], start_y |-> loc[2],
     end_x |-> loc[3], end_y |-> loc[4],
     bodypart_id |-> 0,
     type_id |-> CHOOSE id \in DOMAIN actiontypes : actiontypes[id] = type_name,
     result_id |-> result_id]

\* The same row with the names merged in.
Action(game_id, k, team, type_name, result_id, loc) ==
    merge_names(StoredAction(game_id, k, team, type_name, result_id, loc))

Lengths(max) == 1..max

\* The tables the label functions are given: every team, type and result.
LabelChoices == Teams \X TypeNames \X ResultIds

LabelTables ==
    {[k \in DOMAIN c |-> Action(1, k, c[k][1], c[k][2], c[k][3], <<10, 20, 30, 40>>)] :
        c \in UNION {[1..n -> LabelChoices] : n \in Lengths(MaxActions)}}

\* The tables the feature functions are given: passes from the own half and
\* shots from in front of the goal (at the height of its centre), by
\* either team.
FeatureChoices ==
    Teams \X {<<"pass", <<10, 20, 30, 40>>>>, <<"shot", <<90, 34, 105, 30>>>>}

FeatureTables(max) ==
    {[k \in DOMAIN c |-> Action(1, k, c[k][1], c[k][2][1], 1, c[k][2][2])] :
        c \in UNION {[1..n -> FeatureChoices] : n \in Lengths(max)}}

NoRuns == <<>>

(***************************************************************************)
(* Spec: label_scores and label_concedes applied to one match.             *)
(***************************************************************************)
Init ==
    /\ df_actions \in LabelTables
    /\ nr_actions \in 1..MaxHorizon
    /\ cell = "actions"
    /\ df_features = NotComputed
    /\ features_match = NotComputed
    /\ df_scores = NotComputed
    /\ df_concedes = NotComputed
    /\ spadlstore = NoRuns
    /\ df_games = NoRuns
    /\ game_pos = NoRuns
    /\ features_h5 = NoRuns
    /\ labels_h5 = NoRuns
    /\ tutorial1 = NotComputed
    /\ tutorial3 = NotComputed
    /\ tutorial4 = NotComputed

LabelScores ==
    /\ df_scores = NotComputed
    /\ df_scores' = label_scores(df_actions, nr_actions)
    /\ UNCHANGED <<df_actions, nr_actions, cell, df_features,
                   features_match, df_concedes, loopVars, tutorial1,
                   tutorialVars>>

LabelConcedes ==
    /\ df_scores # NotComputed
    /\ df_concedes = NotComputed
    /\ df_concedes' = label_concedes(df_actions, nr_actions)
    /\ UNCHANGED <<df_actions, nr_actions, cell, df_features,
                   features_match, df_scores, loopVars, tutorial1,
                   tutorialVars>>

Next == LabelScores \/ LabelConcedes

Spec == Init /\ [][Next]_vars

(***************************************************************************)
(* SpecFeatures: the feature cells of tutorial 2 executed in order on one  *)
(* match, then create_features_match on the same match.                    *)
(***************************************************************************)
InitFeatures ==
    /\ df_actions \in FeatureTables(MaxFeatureActions)
    /\ nr_actions = 0
    /\ cell = "actions"
    /\ df_features = NotComputed
    /\ features_match = NotComputed
    /\ df_scores = NotComputed
    /\ df_concedes = NotComputed
    /\ spadlstore = NoRuns
    /\ df_games = NoRuns
    /\ game_pos = NoRuns
    /\ features_h5 = NoRuns
    /\ labels_h5 = NoRuns
    /\ tutorial1 = NotComputed
    /\ tutorial3 = NotComputed
    /\ tutorial4 = NotComputed

FeatureCell(from, to, table) ==
    /\ cell = from
    /\ cell' = to
    /\ df_features' = table
    /\ UNCHANGED <<df_actions, nr_actions, features_match,
                   df_scores, df_concedes, loopVars, tutorial1,
                   tutorialVars>>

CreateDelayedFeatures ==
    FeatureCell("actions", "create_delayed_features",
        create_delayed_features(
            add_time_played(add_action_type_dummies(df_actions)),
            features_to_delay, delays))

AddSameTeam ==
    FeatureCell("create_delayed_features", "add_same_team",
        add_same_team(df_features, delays))

InvertCoordinates ==
    FeatureCell("add_same_team", "invert_coordinates",
        invert_coordinates(df_features, delays))

AddLocationFeatures ==
    FeatureCell("invert_coordinates", "add_location_features",
        add_location_features(df_features, delays))

AddSequencePreFeatures ==
    FeatureCell("add_location_features", "add_sequence_pre_features",
        add_sequence_pre_features(df_features, delays))

AddSequencePostFeatures ==
    FeatureCell("add_sequence_pre_features", "add_sequence_post_features",
        add_sequence_post_features(df_features, delays))

CreateFeaturesMatch ==
    /\ cell = "add_sequence_post_features"
    /\ features_match = NotComputed
    /\ features_match' =
            create_features_match(df_actions, features_to_delay, delays)
    /\ UNCHANGED <<df_actions, nr_actions, cell, df_features,
                   df_scores, df_concedes, loopVars, tutorial1,
                   tutorialVars>>

NextFeatures ==
    \/ CreateDelayedFeatures
    \/ AddSameTeam
    \/ InvertCoordinates
    \/ AddLocationFeatures
    \/ AddSequencePreFeatures
    \/ AddSequencePostFeatures
    \/ CreateFeaturesMatch

SpecFeatures == InitFeatures /\ [][NextFeatures]_vars

(***************************************************************************)
(* SpecInvert: the feature cells up to invert_coordinates, and the cell    *)
(* that calls invert_coordinates executed again and again.                 *)
(***************************************************************************)
\* invert_coordinates(df_features, delays), on the table it has left.
RerunInvertCoordinates ==
    \/ FeatureCell("invert_coordinates", "invert_coordinates again",
            invert_coordinates(df_features, delays))
    \/ FeatureCell("invert_coordinates again", "invert_coordinates",
            invert_coordinates(df_features, delays))

NextInvert ==
    \/ CreateDelayedFeatures
    \/ AddSameTeam
    \/ InvertCoordinates
    \/ RerunInvertCoordinates

SpecInvert == InitFeatures /\ [][NextInvert]_vars

(***************************************************************************)
(* SpecTime: the cells that add nice_time and time_played to the actions   *)
(* of a match.  The actions are in the order of their period and of the    *)
(* seconds played in it; a first half runs past 45 minutes when time is    *)
(* added on.                                                               *)
(***************************************************************************)
\* minute = int((period_id >= 2) * 45 + (period_id >= 3) * 15
\*              + (period_id == 4) * 15 + time_seconds // 60)
\* second = int(time_seconds % 60); f'{minute}m{second}s'
nice_time(row) ==
    LET minute == (IF row.period_id >= 2 THEN 45 ELSE 0)
                  + (IF row.period_id >= 3 THEN 15 ELSE 0)
                  + (IF row.period_id = 4 THEN 15 ELSE 0)
                  + (row.time_seconds \div 60)
        second == row.time_seconds % 60
    IN  ToString(minute) \o "m" \o ToString(second) \o "s"

\* df_actions['nice_time'] = df_actions.apply(nice_time, axis=1)
apply_nice_time(actions) ==
    [k \in 1..Len(actions) |->
        ("nice_time" :> nice_time(actions[k])) @@ actions[k]]

Periods == 1..4
TimeSeconds == {0, 59, 45 * 60, 46 * 60}
TimeChoices == Periods \X TimeSeconds

Chronological(c) ==
    \A k \in 1..(Len(c) - 1) :
        \/ c[k][1] < c[k + 1][1]
        \/ c[k][1] = c[k + 1][1] /\ c[k][2] <= c[k + 1][2]

TimeTables ==
    {[k \in DOMAIN c |->
        [Action(1, k, 1, "pass", 1, <<10, 20, 30, 40>>)
            EXCEPT !.period_id = c[k][1], !.time_seconds = c[k][2]]] :
        c \in {d \in UNION {[1..n -> TimeChoices] : n \in Lengths(MaxTimeActions)} :
                Chronological(d)}}

InitTime ==
    /\ df_actions \in TimeTables
    /\ nr_actions = 0
    /\ cell = "actions"
    /\ df_features = NotComputed
    /\ features_match = NotComputed
    /\ df_scores = NotComputed
    /\ df_concedes = NotComputed
    /\ spadlstore = NoRuns
    /\ df_games = NoRuns
    /\ game_pos = NoRuns
    /\ features_h5 = NoRuns
    /\ labels_h5 = NoRuns
    /\ tutorial1 = NotComputed
    /\ tutorial3 = NotComputed
    /\ tutorial4 = NotComputed

TimeCell(from, to, table) ==
    /\ cell = from
    /\ cell' = to
    /\ df_actions' = table
    /\ UNCHANGED <<nr_actions, df_features, features_match,
                   df_scores, df_concedes, loopVars, tutorial1,
                   tutorialVars>>

NiceTime == TimeCell("actions", "nice_time", apply_nice_time(df_actions))

AddTimePlayed ==
    TimeCell("nice_time", "add_time_played", add_time_played(df_actions))

NextTime == NiceTime \/ AddTimePlayed

SpecTime == InitTime /\ [][NextTime]_vars


(***************************************************************************)
(* SpecLoop: the per-match generation loop of tutorial 2, run twice on two *)
(* spadl.h5 stores that hold the same game 1 and differ in game 2          *)
(* (changed, or absent from the second store).                             *)
(***************************************************************************)
Runs == {1, 2}
GameIds == {1, 2}

actions_key(game_id) == "actions/game_" \o ToString(game_id)
game_key(game_id) == "game_" \o ToString(game_id)

\* Reads every game of the store into one table.
read_all_actions(store, game_id) ==
    LET both == IF actions_key(3 - game_id) \in DOMAIN store
                THEN store[actions_key(3 - game_id)] \o store[actions_key(game_id)]
                ELSE store[actions_key(game_id)]
    IN  [k \in 1..Len(both) |-> merge_names(both[k])]

\* df_actions = spadlstore[f'actions/game_{game_id}'] with the names merged
\* in and the index reset.
read_actions(store, game_id) ==
    LET stored == store[actions_key(game_id)]
    IN  [k \in 1..Len(stored) |-> merge_names(stored[k])]

loop_nr_actions == 10

\* The label table without its last row.
generate_labels_short(actions) ==
    LET both == concat_columns(label_scores(actions, loop_nr_actions),
                               label_concedes(actions, loop_nr_actions))
    IN  SubSeq(both, 1, Len(both) - 1)

\* pd.concat([label_scores(df_actions, nr_actions=10),
\*            label_concedes(df_actions, nr_actions=10)], axis=1)
generate_labels(actions) ==
    concat_columns(label_scores(actions, loop_nr_actions),
                   label_concedes(actions, loop_nr_actions))

\* to_hdf writing a new file: the entries of the other keys are lost.
to_hdf_new_file(file, key, table) == (key :> table)

\* to_hdf(file, key): the entry of the key is written, the others are kept.
to_hdf(file, key, table) == (key :> table) @@ file

\* The stored game 1: passes of team 1 and goal shots of team 2 in every
\* order.
LoopChoices == {<<1, "pass", 1>>, <<2, "shot", 1>>}

LoopTables(game_id) ==
    {[k \in DOMAIN c |->
        StoredAction(game_id, k, c[k][1], c[k][2], c[k][3], <<10, 20, 30, 40>>)] :
        c \in UNION {[1..n -> LoopChoices] : n \in Lengths(MaxLoopActions)}}

\* The other stored game: passes of team 1 only, or goal shots of team 2
\* only.
OtherTables(game_id) ==
    {[k \in 1..n |->
        StoredAction(game_id, k, c[1], c[2], c[3], <<10, 20, 30, 40>>)] :
        c \in LoopChoices, n \in Lengths(MaxLoopActions)}

\* Both runs hold the same game 1; game 2 differs between them, or is not
\* in the second store at all.  df_games lists the games of the store.
InitLoop ==
    /\ df_actions = NotComputed
    /\ nr_actions = 0
    /\ cell = "actions"
    /\ df_features = NotComputed
    /\ features_match = NotComputed
    /\ df_scores = NotComputed
    /\ df_concedes = NotComputed
    /\ \E order \in {<<1, 2>>, <<2, 1>>} :
        \E t \in LoopTables(1), o1 \in OtherTables(2),
           o2 \in OtherTables(2) \cup {NotComputed} :
            /\ spadlstore =
                [r \in Runs |->
                    IF r = 1
                    THEN (actions_key(1) :> t) @@ (actions_key(2) :> o1)
                    ELSE IF o2 = NotComputed THEN (actions_key(1) :> t)
                    ELSE (actions_key(1) :> t) @@ (actions_key(2) :> o2)]
            /\ df_games =
                [r \in Runs |->
                    IF r = 2 /\ o2 = NotComputed THEN <<1>> ELSE order]
    /\ game_pos = [r \in Runs |-> 0]
    /\ features_h5 = [r \in Runs |-> <<>>]
    /\ labels_h5 = [r \in Runs |-> <<>>]
    /\ tutorial1 = NotComputed
    /\ tutorial3 = NotComputed
    /\ tutorial4 = NotComputed

\* One iteration of the loop of run r: the game is read, its features and
\* labels are built and written.  The tables of the iteration (df_actions,
\* df_features, df_labels) are replaced by the next iteration and are kept
\* in the files only.
GenerateGame(r) ==
    /\ game_pos[r] < Len(df_games[r])
    /\ LET game_id == df_games[r][game_pos[r] + 1]
           actions == read_actions(spadlstore[r], game_id)
       IN  /\ features_h5' =
                [features_h5 EXCEPT ![r] =
                    to_hdf(@, game_key(game_id),
                           create_features_match(actions, features_to_delay, delays))]
           /\ labels_h5' =
                [labels_h5 EXCEPT ![r] =
                    to_hdf(@, game_key(game_id), generate_labels(actions))]
    /\ game_pos' = [game_pos EXCEPT ![r] = @ + 1]
    /\ UNCHANGED <<matchVars, spadlstore, df_games, tutorial1,
                   tutorialVars>>

NextLoop == \E r \in Runs : GenerateGame(r)

SpecLoop == InitLoop /\ [][NextLoop]_vars

(***************************************************************************)
(* SpecOrder: the same loop run twice on one store, the games of df_games  *)
(* taken in the one order and in the other.                                *)
(***************************************************************************)
InitOrder ==
    /\ df_actions = NotComputed
    /\ nr_actions = 0
    /\ cell = "actions"
    /\ df_features = NotComputed
    /\ features_match = NotComputed
    /\ df_scores = NotComputed
    /\ df_concedes = NotComputed
    /\ \E t1 \in LoopTables(1), t2 \in LoopTables(2) :
        spadlstore =
            [r \in Runs |-> (actions_key(1) :> t1) @@ (actions_key(2) :> t2)]
    /\ df_games = [r \in Runs |-> IF r = 1 THEN <<1, 2>> ELSE <<2, 1>>]
    /\ game_pos = [r \in Runs |-> 0]
    /\ features_h5 = [r \in Runs |-> <<>>]
    /\ labels_h5 = [r \in Runs |-> <<>>]
    /\ tutorial1 = NotComputed
    /\ tutorial3 = NotComputed
    /\ tutorial4 = NotComputed

SpecOrder == InitOrder /\ [][NextLoop]_vars

(***************************************************************************)
(* SpecMalformed: the same loop on a store whose game 1 may be malformed:  *)
(* a row out of the order of time, or a row that starts outside the pitch. *)
(***************************************************************************)
MaxMalformedActions == 2

Defects == {"none", "time_seconds", "start_x", "end_y"}

\* The stored table with the defect in its row k: a time_seconds after the
\* one of the next row (row 1) or before the one of the previous row, a
\* start_x beyond PITCH_LENGTH, or an end_y below 0.
with_defect(table, defect, k) ==
    IF defect = "time_seconds"
    THEN [table EXCEPT ![k].time_seconds = IF k = 1 THEN 100 ELSE 0]
    ELSE IF defect = "start_x"
    THEN [table EXCEPT ![k].start_x = PITCH_LENGTH + 15]
    ELSE IF defect = "end_y"
    THEN [table EXCEPT ![k].end_y = -3]
    ELSE table

MalformedTables(game_id) ==
    {with_defect(
        [k \in DOMAIN c |->
            StoredAction(game_id, k, c[k][1], c[k][2], c[k][3], <<10, 20, 30, 40>>)],
        defect, at) :
        c \in UNION {[1..n -> LoopChoices] : n \in Lengths(MaxMalformedActions)},
        defect \in Defects, at \in Lengths(MaxMalformedActions)}

\* The first store holds game 1 and a game 2 of one pass, the second
\* store game 1 only.
InitMalformed ==
    /\ df_actions = NotComputed
    /\ nr_actions = 0
    /\ cell = "actions"
    /\ df_features = NotComputed
    /\ features_match = NotComputed
    /\ df_scores = NotComputed
    /\ df_concedes = NotComputed
    /\ \E order \in {<<1, 2>>, <<2, 1>>} :
        \E t \in MalformedTables(1) :
            /\ spadlstore =
                [r \in Runs |->
                    IF r = 1
                    THEN (actions_key(1) :> t)
                         @@ (actions_key(2) :>
                                <<StoredAction(2, 1, 1, "pass", 1, <<10, 20, 30, 40>>)>>)
                    ELSE (actions_key(1) :> t)]
            /\ df_games = [r \in Runs |-> IF r = 2 THEN <<1>> ELSE order]
    /\ game_pos = [r \in Runs |-> 0]
    /\ features_h5 = [r \in Runs |-> <<>>]
    /\ labels_h5 = [r \in Runs |-> <<>>]
    /\ tutorial1 = NotComputed
    /\ tutorial3 = NotComputed
    /\ tutorial4 = NotComputed

SpecMalformed == InitMalformed /\ [][NextLoop]_vars

(***************************************************************************)
(* SpecPipeline: tutorial 1, from the stored features of the games to the  *)
(* valued actions.  The classifier and the value formula come from         *)
(* libraries: a probability is kept as the term of the classifier and the  *)
(* feature row it was predicted from, a value as the term of the action    *)
(* and the probabilities of its row.                                       *)
(***************************************************************************)
columns_features == <<"type_id_a0", "start_x_a0">>
columns_labels == <<"scores", "concedes">>

\* df[columns]
select(table, columns) ==
    [k \in 1..Len(table) |-> [c \in Range(columns) |-> table[k][c]]]

\* pd.concat(tables).reset_index(drop=True)
RECURSIVE concat(_)
concat(tables) ==
    IF Len(tables) = 0 THEN <<>> ELSE Head(tables) \o concat(Tail(tables))

\* The feature table the feature loop stores for a game: one row for each
\* action, in the order of the actions.
gamestate_features(actions) ==
    [k \in 1..Len(actions) |->
        [type_id_a0 |-> actions[k].type_id, start_x_a0 |-> actions[k].start_x]]

\* model.fit(df_features, df_labels[column_labels])
fit(X, label) == [label |-> label, rows |-> Len(X)]

\* model.predict_proba(df_features)[:, 1]
predict_proba(model, X) ==
    [k \in 1..Len(X) |-> [model |-> model, features |-> X[k]]]

\* The game ids of the actions, the games taken from the last that df_games
\* lists to the first.
RECURSIVE game_ids_reversed(_, _)
game_ids_reversed(games, store) ==
    IF Len(games) = 0 THEN <<>>
    ELSE LET stored == store[actions_key(Head(games))]
         IN  game_ids_reversed(Tail(games), store)
             \o [k \in 1..Len(stored) |-> [game_id |-> stored[k].game_id]]

\* pd.concat(dfs_game_ids, axis=0).astype('int').reset_index(drop=True): the
\* game_id column of the stored actions, the games taken as df_games lists
\* them.
RECURSIVE game_ids(_, _)
game_ids(games, store) ==
    IF Len(games) = 0 THEN <<>>
    ELSE LET stored == store[actions_key(Head(games))]
         IN  [k \in 1..Len(stored) |-> [game_id |-> stored[k].game_id]]
             \o game_ids(Tail(games), store)

RECURSIVE sorted(_)
sorted(keys) ==
    IF keys = {} THEN <<>>
    ELSE LET least == CHOOSE g \in keys : \A h \in keys : g <= h
         IN  <<least>> \o sorted(keys \ {least})

RECURSIVE rows_of(_, _, _)
rows_of(table, by, key) ==
    IF Len(table) = 0 THEN <<>>
    ELSE (IF Head(table)[by] = key THEN <<Head(table)>> ELSE <<>>)
         \o rows_of(Tail(table), by, key)

\* df.groupby(by): the groups in ascending order of their key, each with
\* its rows in the order of the table.
groupby(table, by) ==
    LET keys == sorted({table[k][by] : k \in 1..Len(table)})
    IN  [p \in 1..Len(keys) |->
            [key |-> keys[p], rows |-> rows_of(table, by, keys[p])]]

\* The loop that stores each group under the key of its game.
RECURSIVE store_groups(_, _)
store_groups(file, groups) ==
    IF Len(groups) = 0 THEN file
    ELSE store_groups(
            to_hdf(file, game_key(Head(groups).key),
                   select(Head(groups).rows, columns_labels)),
            Tail(groups))

\* .merge(df_players, how='left').merge(df_teams, how='left'): the names of
\* the player and of the team, added to each row.
merge_people(row) ==
    ("short_name" :> "player " \o ToString(row.player_id))
    @@ ("team_name" :> "team " \o ToString(row.team_id))
    @@ row

\* value(df_actions, df_predictions['scores'], df_predictions['concedes'])
value(actions, scores, concedes) ==
    [k \in 1..Len(actions) |->
        [vaep_value |->
            [action |-> <<actions[k].game_id, actions[k].time_seconds>>,
             scores |-> scores[k], concedes |-> concedes[k]]]]

series(table, name) == [k \in 1..Len(table) |-> table[k][name]]

\* The stored games of tutorial 1: passes of team 1 and shots of team 2.
\* The start of an action tells it from every other action of the store.
PipelineChoices == {<<1, "pass">>, <<2, "shot">>}

PipelineTables(game_id) ==
    {[k \in DOMAIN c |->
        StoredAction(game_id, k, c[k][1], c[k][2], 1,
                     <<10 * game_id + k, 20, 30, 40>>)] :
        c \in UNION {[1..n -> PipelineChoices] :
                        n \in Lengths(MaxPipelineActions)}}

\* df_games lists one or two games; a list that names a game twice is kept
\* to tell what the distinct ids are needed for.
GamesLists == UNION {[1..n -> GameIds] : n \in 1..Cardinality(GameIds)}

InitPipeline ==
    /\ df_actions = NotComputed
    /\ nr_actions = 0
    /\ cell = "actions"
    /\ df_features = NotComputed
    /\ features_match = NotComputed
    /\ df_scores = NotComputed
    /\ df_concedes = NotComputed
    /\ spadlstore = NoRuns
    /\ df_games = NoRuns
    /\ game_pos = NoRuns
    /\ features_h5 = NoRuns
    /\ labels_h5 = NoRuns
    /\ tutorial3 = NotComputed
    /\ tutorial4 = NotComputed
    /\ \E games \in GamesLists, t1 \in PipelineTables(1), t2 \in PipelineTables(2) :
        tutorial1 =
            [cell |-> "dataset",
             df_games |-> games,
             spadl_h5 |-> (actions_key(1) :> t1) @@ (actions_key(2) :> t2),
             features_h5 |-> (game_key(1) :> gamestate_features(t1))
                             @@ (game_key(2) :> gamestate_features(t2)),
             df_features |-> NotComputed,
             models |-> NotComputed,
             df_predictions |-> NotComputed,
             df_game_ids |-> NotComputed,
             df_predictions_per_game |-> NotComputed,
             predictions_h5 |-> NotComputed,
             dfs_values |-> <<>>]

PipelineCell(from) ==
    /\ tutorial1.cell = from
    /\ UNCHANGED <<matchVars, loopVars, tutorialVars>>

\* df_features = pd.concat(dfs_features).reset_index(drop=True)
ConcatFeatures ==
    /\ PipelineCell("dataset")
    /\ tutorial1' =
        [tutorial1 EXCEPT
            !.cell = "train",
            !.df_features =
                concat([p \in 1..Len(tutorial1.df_games) |->
                    select(tutorial1.features_h5[game_key(tutorial1.df_games[p])],
                           columns_features)])]

TrainClassifiers ==
    /\ PipelineCell("train")
    /\ tutorial1' =
        [tutorial1 EXCEPT
            !.cell = "predict",
            !.models = [c \in Range(columns_labels) |->
                            fit(tutorial1.df_features, c)]]

\* df_predictions = pd.concat(dfs_predictions, axis=1)
EstimateProbabilities ==
    /\ PipelineCell("predict")
    /\ tutorial1' =
        [tutorial1 EXCEPT
            !.cell = "game_ids",
            !.df_predictions =
                [k \in 1..Len(tutorial1.df_features) |->
                    [c \in Range(columns_labels) |->
                        predict_proba(tutorial1.models[c],
                                      tutorial1.df_features)[k]]]]

ObtainGameIds ==
    /\ PipelineCell("game_ids")
    /\ tutorial1' =
        [tutorial1 EXCEPT
            !.cell = "attach",
            !.df_game_ids = game_ids(tutorial1.df_games, tutorial1.spadl_h5)]

\* df_predictions = pd.concat([df_predictions, df_game_ids], axis=1)
AttachGameIds ==
    /\ PipelineCell("attach")
    /\ tutorial1' =
        [tutorial1 EXCEPT
            !.cell = "groupby",
            !.df_predictions =
                concat_columns(tutorial1.df_predictions, tutorial1.df_game_ids)]

GroupPredictions ==
    /\ PipelineCell("groupby")
    /\ tutorial1' =
        [tutorial1 EXCEPT
            !.cell = "store",
            !.df_predictions_per_game =
                groupby(tutorial1.df_predictions, "game_id")]

StorePredictions ==
    /\ PipelineCell("store")
    /\ tutorial1' =
        [tutorial1 EXCEPT
            !.cell = "value",
            !.predictions_h5 =
                store_groups(<<>>, tutorial1.df_predictions_per_game)]

\* One iteration of the loop that values the games.
ValueGame ==
    /\ PipelineCell("value")
    /\ Len(tutorial1.dfs_values) < Len(tutorial1.df_games)
    /\ LET game_id == tutorial1.df_games[Len(tutorial1.dfs_values) + 1]
           actions == read_actions(tutorial1.spadl_h5, game_id)
           people == [k \in 1..Len(actions) |-> merge_people(actions[k])]
           predictions == tutorial1.predictions_h5[game_key(game_id)]
           df_values == value(people, series(predictions, "scores"),
                              series(predictions, "concedes"))
           df_all == concat_columns(concat_columns(people, predictions),
                                    df_values)
       IN  tutorial1' =
            [tutorial1 EXCEPT !.dfs_values = Append(@, df_all)]

NextPipeline ==
    \/ ConcatFeatures
    \/ TrainClassifiers
    \/ EstimateProbabilities
    \/ ObtainGameIds
    \/ AttachGameIds
    \/ GroupPredictions
    \/ StorePredictions
    \/ ValueGame

SpecPipeline == InitPipeline /\ [][NextPipeline]_vars



(***************************************************************************)
(* Tutorials 3 and 4: the columns of the stored feature tables that the    *)
(* classifiers are trained on.                                             *)
(***************************************************************************)
features_tutorial3 ==
    <<"start_distance_to_goal-0", "end_distance_to_goal-0",
      "start_distance_to_goal-1", "end_distance_to_goal-1",
      "start_distance_to_goal-2", "end_distance_to_goal-2",
      "start_angle_to_goal-0", "end_angle_to_goal-0",
      "start_angle_to_goal-1", "end_angle_to_goal-1",
      "start_angle_to_goal-2", "end_angle_to_goal-2",
      "team-1", "team-2">>

features_tutorial4 ==
    features_tutorial3 \o <<"result_id-0", "result_id-1", "result_id-2">>

(***************************************************************************)
(* SpecTutorial4: tutorial 4, from the games, features and labels that     *)
(* tutorial 2 stored to the risk-reward table of the players.  A frame     *)
(* keeps its index in the column "index" of its rows.                      *)
(***************************************************************************)
MaxTutorial4Actions == 2

\* df.reset_index(drop=True)
reset_index(table) ==
    [k \in 1..Len(table) |-> ("index" :> (k - 1)) @@ table[k]]

\* df[column] = value
assign(table, name, v) ==
    [k \in 1..Len(table) |-> (name :> v) @@ table[k]]

\* df[df[column] != value]
rows_ne(table, name, v) ==
    SelectSeq(table, LAMBDA row : row[name] # v)

\* df[df[column] == value]
rows_eq(table, name, v) ==
    SelectSeq(table, LAMBDA row : row[name] = v)

\* df[column].unique()
unique(table, name) == {table[k][name] : k \in 1..Len(table)}

\* df[df[column].isin(values)]
rows_isin(table, name, values) ==
    SelectSeq(table, LAMBDA row : row[name] \in values)

\* The split with the index of a row read for its game.
split_data_by_index(features, labels, games_train, games_test) ==
    [df_X_train |-> rows_isin(features, "index", unique(games_train, "game_id")),
     df_X_test |-> rows_isin(features, "index", unique(games_test, "game_id")),
     df_y_train |-> rows_isin(labels, "index", unique(games_train, "game_id")),
     df_y_test |-> rows_isin(labels, "index", unique(games_test, "game_id"))]

\* df_X_train, df_X_test, df_y_train, df_y_test: the rows of the features
\* and of the labels whose game is a training game, or a test game.
split_data(features, labels, games_train, games_test) ==
    [df_X_train |-> rows_isin(features, "game_id", unique(games_train, "game_id")),
     df_X_test |-> rows_isin(features, "game_id", unique(games_test, "game_id")),
     df_y_train |-> rows_isin(labels, "game_id", unique(games_train, "game_id")),
     df_y_test |-> rows_isin(labels, "game_id", unique(games_test, "game_id"))]

\* The loops that read the table of every game of df_games from a file,
\* set its game_id and append it.
RECURSIVE load_games(_, _)
load_games(games, file) ==
    IF Len(games) = 0 THEN <<>>
    ELSE <<assign(file[game_key(Head(games).game_id)], "game_id",
                  Head(games).game_id)>>
         \o load_games(Tail(games), file)

TestCompetition == 795
OtherCompetition == 524

\* The stored games: game 1 with passes, missed shots and goals in every
\* order, game 2 with actions of one kind, game 3 with one pass.
Tutorial4Choices ==
    {<<1, "pass", 1>>, <<2, "shot", 0>>, <<2, "shot", 1>>}

Tutorial4Tables(game_id) ==
    {[k \in DOMAIN c |->
        StoredAction(game_id, k, c[k][1], c[k][2], c[k][3], <<10, 20, 30, 40>>)] :
        c \in UNION {[1..n -> Tutorial4Choices] : n \in Lengths(MaxTutorial4Actions)}}

Tutorial4OtherTables(game_id) ==
    {[k \in 1..n |->
        StoredAction(game_id, k, c[1], c[2], c[3], <<10, 20, 30, 40>>)] :
        c \in {<<1, "pass", 0>>, <<2, "shot", 1>>},
        n \in Lengths(MaxTutorial4Actions)}

\* df_games: the three games in some order; game 3 is of another
\* competition than the test competition.
Tutorial4Games ==
    {[p \in 1..3 |->
        [game_id |-> order[p],
         competition_id |-> IF order[p] = 3 THEN OtherCompetition
                            ELSE competitions[order[p]]]] :
        order \in {<<1, 2, 3>>, <<2, 3, 1>>, <<3, 2, 1>>},
        competitions \in [{1, 2} -> {TestCompetition, OtherCompetition}]}

\* features.h5 and labels.h5 as the loop of tutorial 2 writes them.
stored_features(store) ==
    [key \in {game_key(g) : g \in 1..3} |->
        LET g == CHOOSE g \in 1..3 : game_key(g) = key
        IN  create_features_match(read_actions(store, g),
                                  features_to_delay, delays)]

stored_labels(store) ==
    [key \in {game_key(g) : g \in 1..3} |->
        LET g == CHOOSE g \in 1..3 : game_key(g) = key
        IN  generate_labels(read_actions(store, g))]

InitTutorial4 ==
    /\ df_actions = NotComputed
    /\ nr_actions = 0
    /\ cell = "actions"
    /\ df_features = NotComputed
    /\ features_match = NotComputed
    /\ df_scores = NotComputed
    /\ df_concedes = NotComputed
    /\ spadlstore = NoRuns
    /\ df_games = NoRuns
    /\ game_pos = NoRuns
    /\ features_h5 = NoRuns
    /\ labels_h5 = NoRuns
    /\ tutorial1 = NotComputed
    /\ tutorial3 = NotComputed
    /\ \E games \in Tutorial4Games, t1 \in Tutorial4Tables(1),
          t2 \in Tutorial4OtherTables(2) :
        LET store == (actions_key(1) :> t1) @@ (actions_key(2) :> t2)
                     @@ (actions_key(3) :>
                            <<StoredAction(3, 1, 1, "pass", 1, <<10, 20, 30, 40>>)>>)
        IN  tutorial4 =
                [cell |-> "games",
                 df_games |-> games,
                 spadl_h5 |-> store,
                 features_h5 |-> stored_features(store),
                 labels_h5 |-> stored_labels(store),
                 df_games_train |-> NotComputed,
                 df_games_test |-> NotComputed,
                 df_features |-> NotComputed,
                 df_labels |-> NotComputed,
                 df_X_train |-> NotComputed,
                 df_X_test |-> NotComputed,
                 df_y_train |-> NotComputed,
                 df_y_test |-> NotComputed,
                 models |-> NotComputed,
                 df_predictions |-> NotComputed,
                 test_actions |-> NotComputed,
                 df_actions_predictions |-> NotComputed,
                 df_values |-> NotComputed,
                 df_risk |-> NotComputed]

Tutorial4Cell(from) ==
    /\ tutorial4.cell = from
    /\ UNCHANGED <<matchVars, loopVars, tutorial1, tutorial3>>

\* df_games_train = df_games[df_games['competition_id'] != 795]
\* df_games_test = df_games[df_games['competition_id'] == 795]
SplitGames ==
    /\ Tutorial4Cell("games")
    /\ tutorial4' =
        [tutorial4 EXCEPT
            !.cell = "load features",
            !.df_games_train = rows_ne(tutorial4.df_games, "competition_id", TestCompetition),
            !.df_games_test = rows_eq(tutorial4.df_games, "competition_id", TestCompetition)]

\* df_features = pd.concat(dfs_features).reset_index(drop=True)
LoadFeatures ==
    /\ Tutorial4Cell("load features")
    /\ tutorial4' =
        [tutorial4 EXCEPT
            !.cell = "load labels",
            !.df_features =
                reset_index(concat(load_games(tutorial4.df_games,
                                              tutorial4.features_h5)))]

\* df_labels = pd.concat(dfs_labels).reset_index(drop=True)
LoadLabels ==
    /\ Tutorial4Cell("load labels")
    /\ tutorial4' =
        [tutorial4 EXCEPT
            !.cell = "split",
            !.df_labels =
                reset_index(concat(load_games(tutorial4.df_games,
                                              tutorial4.labels_h5)))]

SplitData ==
    /\ Tutorial4Cell("split")
    /\ LET data == split_data(tutorial4.df_features, tutorial4.df_labels,
                              tutorial4.df_games_train, tutorial4.df_games_test)
       IN  tutorial4' =
            [tutorial4 EXCEPT
                !.cell = "train",
                !.df_X_train = data.df_X_train,
                !.df_X_test = data.df_X_test,
                !.df_y_train = data.df_y_train,
                !.df_y_test = data.df_y_test]

labels_tutorial4 == <<"scores", "concedes">>

\* models[label] = model, fit on df_X_train[features] and df_y_train[label]
TrainModels ==
    /\ Tutorial4Cell("train")
    /\ tutorial4' =
        [tutorial4 EXCEPT
            !.cell = "predict",
            !.models =
                [label \in Range(labels_tutorial4) |->
                    fit(select(tutorial4.df_X_train, features_tutorial4), label)]]

\* dfs_predictions[label] = pd.Series(predictions, index=df_X_test.index)
\* pd.concat(dfs_predictions, axis=1).reset_index(drop=True)
predict_test(models, X_test) ==
    reset_index(
        [k \in 1..Len(X_test) |->
            [label \in Range(labels_tutorial4) |->
                predict_proba(models[label],
                              select(X_test, features_tutorial4))[k]]
            @@ ("index" :> X_test[k]["index"])])

PredictTest ==
    /\ Tutorial4Cell("predict")
    /\ tutorial4' =
        [tutorial4 EXCEPT
            !.cell = "load actions",
            !.df_predictions = predict_test(tutorial4.models, tutorial4.df_X_test)]

\* .reset_index().rename(columns={'index': 'action_id'})
action_ids(table) ==
    [k \in 1..Len(table) |-> ("action_id" :> (k - 1)) @@ table[k]]

\* The test games read from the last one to the first one.
RECURSIVE load_actions_reversed(_, _)
load_actions_reversed(games, store) ==
    IF Len(games) = 0 THEN <<>>
    ELSE load_actions_reversed(Tail(games), store)
         \o <<LET actions == read_actions(store, Head(games).game_id)
              IN  action_ids([k \in 1..Len(actions) |-> merge_people(actions[k])])>>

\* dfs_actions: the actions of every game of df_games_test with the names
\* of the types, results, body parts, players and teams merged in.
RECURSIVE load_actions(_, _)
load_actions(games, store) ==
    IF Len(games) = 0 THEN <<>>
    ELSE <<LET actions == read_actions(store, Head(games).game_id)
           IN  action_ids([k \in 1..Len(actions) |-> merge_people(actions[k])])>>
         \o load_actions(Tail(games), store)

\* df_actions = pd.concat(dfs_actions).reset_index(drop=True); pd.concat
\* raises a ValueError when there is no test game.
LoadTestActions ==
    /\ Tutorial4Cell("load actions")
    /\ Len(tutorial4.df_games_test) > 0
    /\ tutorial4' =
        [tutorial4 EXCEPT
            !.cell = "attach",
            !.test_actions =
                reset_index(concat(load_actions(tutorial4.df_games_test,
                                                tutorial4.spadl_h5)))]

\* df_actions_predictions = pd.concat([df_actions, df_predictions], axis=1)
AttachPredictions ==
    /\ Tutorial4Cell("attach")
    /\ tutorial4' =
        [tutorial4 EXCEPT
            !.cell = "value",
            !.df_actions_predictions =
                concat_columns(tutorial4.test_actions, tutorial4.df_predictions)]

\* df_all of every group of df_actions_predictions.groupby('game_id'): the
\* rows of the game with their values.
RECURSIVE value_groups(_)
value_groups(groups) ==
    IF Len(groups) = 0 THEN <<>>
    ELSE LET game_predictions == Head(groups).rows
             df_values == value(game_predictions,
                                series(game_predictions, "scores"),
                                series(game_predictions, "concedes"))
         IN  <<concat_columns(game_predictions, df_values)>>
             \o value_groups(Tail(groups))

\* The order of sort_values(['game_id', 'period_id', 'time_seconds']).
sorts_before(a, b) ==
    \/ a.game_id < b.game_id
    \/ a.game_id = b.game_id /\ a.period_id < b.period_id
    \/ /\ a.game_id = b.game_id
       /\ a.period_id = b.period_id
       /\ a.time_seconds < b.time_seconds

\* The row put in its place among rows that are sorted, after the rows it
\* does not sort before.
RECURSIVE insert_sorted(_, _)
insert_sorted(rows, row) ==
    IF Len(rows) = 0 THEN <<row>>
    ELSE IF sorts_before(row, Head(rows)) THEN <<row>> \o rows
    ELSE <<Head(rows)>> \o insert_sorted(Tail(rows), row)

RECURSIVE sort_values(_)
sort_values(table) ==
    IF Len(table) = 0 THEN <<>>
    ELSE insert_sorted(sort_values(SubSeq(table, 1, Len(table) - 1)),
                       table[Len(table)])

\* dfs_values of the groups of the games; df_values = pd.concat(dfs_values)
\* sorted and with a new index.
ValueGames ==
    /\ Tutorial4Cell("value")
    /\ tutorial4' =
        [tutorial4 EXCEPT
            !.cell = "risk",
            !.df_values =
                reset_index(sort_values(concat(value_groups(
                    groupby(tutorial4.df_actions_predictions, "game_id")))))]

\* aggfunc=np.sum of the vaep_value of the rows of a player with a result:
\* the sum is kept as the values it adds up, and the fill_value 0 of a
\* player without such a row as the sum of no value.
RECURSIVE sum_of(_, _, _)
sum_of(table, player, result) ==
    IF Len(table) = 0 THEN <<>>
    ELSE (IF /\ Head(table)["player_id"] = player
             /\ Head(table)["result_name"] = result
          THEN <<Head(table)["vaep_value"]>> ELSE <<>>)
         \o sum_of(Tail(table), player, result)

\* pd.pivot_table(df_values, values='vaep_value',
\*     index=['player_id', 'short_name', 'team_name'],
\*     columns=['result_name'], aggfunc=np.sum,
\*     fill_value=0)[['success', 'fail']].reset_index(): one row for each
\* player of df_values, in the order of player_id.
pivot_table(table) ==
    LET players == sorted(unique(table, "player_id"))
    IN  [p \in 1..Len(players) |->
            LET row == CHOOSE row \in Range(table) : row.player_id = players[p]
            IN  [player_id |-> players[p],
                 short_name |-> row.short_name,
                 team_name |-> row.team_name,
                 success |-> sum_of(table, players[p], "success"),
                 fail |-> sum_of(table, players[p], "fail")]]

\* df_risk = df_risk[0:-1]
all_but_last(table) == SubSeq(table, 1, Len(table) - 1)

\* The cell of df_risk up to the merge; [['success', 'fail']] needs both
\* results among the columns of the pivot table.
RiskTable ==
    /\ Tutorial4Cell("risk")
    /\ {"success", "fail"} \subseteq unique(tutorial4.df_values, "result_name")
    /\ tutorial4' =
        [tutorial4 EXCEPT
            !.cell = "merge minutes",
            !.df_risk = all_but_last(reset_index(pivot_table(tutorial4.df_values)))]

\* [['success', 'fail']] raises a KeyError when no action of df_values has
\* the one result or the other.
RiskKeyError ==
    /\ Tutorial4Cell("risk")
    /\ ~({"success", "fail"} \subseteq unique(tutorial4.df_values, "result_name"))
    /\ tutorial4' = [tutorial4 EXCEPT !.cell = "KeyError"]

NextTutorial4 ==
    \/ SplitGames
    \/ LoadFeatures
    \/ LoadLabels
    \/ SplitData
    \/ TrainModels
    \/ PredictTest
    \/ LoadTestActions
    \/ AttachPredictions
    \/ ValueGames
    \/ RiskTable
    \/ RiskKeyError

SpecTutorial4 == InitTutorial4 /\ [][NextTutorial4]_vars

(***************************************************************************)
(* SpecTutorial3: tutorial 3, from the split data to the final classifier. *)
(* A classifier is kept as the term of its estimator and of the data it    *)
(* was fit on, a score as the term of the series it was computed from.     *)
(***************************************************************************)
MaxTutorial3Actions == 2

\* XGBClassifier(eval_metric='logloss', use_label_encoder=False, ...)
XGBClassifier(n_estimators, max_depth) ==
    [estimator |-> "XGBClassifier",
     n_estimators |-> {n_estimators}, max_depth |-> {max_depth}]

\* GridSearchCV(estimator=XGBClassifier(...), param_grid={...}, refit=True)
GridSearchCV ==
    [estimator |-> "GridSearchCV",
     n_estimators |-> {50, 100}, max_depth |-> {3, 4}]

\* df[label]: the series of the column, with its name.
named_series(table, label) ==
    [name |-> label, values |-> [k \in 1..Len(table) |-> table[k][label]]]

\* model.fit(X=df_X_train[features], y=df_y_train[label])
fit_model(model, X, y) == [model |-> model, X |-> X, y |-> y]

\* pd.Series(model.predict_proba(df_X_test[features])[:, 1], index=df_X_test.index)
predict_series(model, X_test) ==
    [k \in 1..Len(X_test) |->
        [index |-> X_test[k]["index"],
         value |-> predict_proba(model, select(X_test, features_tutorial3))[k]]]

\* pd.concat(dfs, axis=1): one column for each key of the dictionary.
concat_series(dfs, X_test) ==
    [k \in 1..Len(X_test) |->
        [label \in DOMAIN dfs |-> dfs[label][k].value]
        @@ ("index" :> X_test[k]["index"])]

\* brier_score_loss(y_true=..., y_prob=...)
brier_score_loss(y_true, y_prob) == [y_true |-> y_true, y_prob |-> y_prob]

\* The rows of the table that are in the set of positions.
rows_at(table, positions) ==
    SelectSeq(table, LAMBDA row : row["index"] + 1 \in positions)

\* train_test_split: the test set is some of the rows and the training set
\* the others, both with the index they have in df_features.
Tutorial3Splits(n) ==
    {test \in SUBSET (1..n) : test # {} /\ test # 1..n}

Tutorial3Labels == {<<"scores">>, <<"scores", "concedes">>}

InitTutorial3 ==
    /\ df_actions = NotComputed
    /\ nr_actions = 0
    /\ cell = "actions"
    /\ df_features = NotComputed
    /\ features_match = NotComputed
    /\ df_scores = NotComputed
    /\ df_concedes = NotComputed
    /\ spadlstore = NoRuns
    /\ df_games = NoRuns
    /\ game_pos = NoRuns
    /\ features_h5 = NoRuns
    /\ labels_h5 = NoRuns
    /\ tutorial1 = NotComputed
    /\ tutorial4 = NotComputed
    /\ \E actions \in FeatureTables(MaxTutorial3Actions),
          labels \in Tutorial3Labels :
        /\ Len(actions) >= 2
        /\ \E test \in Tutorial3Splits(Len(actions)) :
            LET features == reset_index(
                    create_features_match(actions, features_to_delay, delays))
                targets == reset_index(generate_labels(actions))
            IN  tutorial3 =
                    [cell |-> "train",
                     labels |-> labels,
                     label |-> {},
                     df_X_train |-> rows_at(features, (1..Len(actions)) \ test),
                     df_X_test |-> rows_at(features, test),
                     df_y_train |-> rows_at(targets, (1..Len(actions)) \ test),
                     df_y_test |-> rows_at(targets, test),
                     models |-> NotComputed,
                     df_predictions |-> NotComputed,
                     models_cv |-> NotComputed,
                     df_predictions_cv |-> NotComputed,
                     brier_cv |-> NotComputed,
                     model_scores_final |-> NotComputed]

Tutorial3Cell(from) ==
    /\ tutorial3.cell = from
    /\ UNCHANGED <<matchVars, loopVars, tutorial1, tutorial4>>

\* The value the variable label keeps after 'for label in tqdm(labels)'.
last_label(labels) == {labels[Len(labels)]}

\* The dictionary the loops over the labels fill: a classifier of the
\* estimator for each label.
fit_models(estimator, labels, X_train, y_train) ==
    [label \in Range(labels) |->
        fit_model(estimator, select(X_train, features_tutorial3),
                  named_series(y_train, label))]

\* The dictionary of the predicted series of each label.
predict_all(models, labels, X_test) ==
    [label \in Range(labels) |-> predict_series(models[label], X_test)]

\* models[label] = model, for the baseline classifier.
TrainBaseline ==
    /\ Tutorial3Cell("train")
    /\ tutorial3' =
        [tutorial3 EXCEPT
            !.cell = "predict",
            !.label = last_label(tutorial3.labels),
            !.models = fit_models(XGBClassifier(10, 3), tutorial3.labels,
                                  tutorial3.df_X_train, tutorial3.df_y_train)]

\* dfs_predictions[label] = ...; df_predictions = pd.concat(dfs_predictions, axis=1)
PredictBaseline ==
    /\ Tutorial3Cell("predict")
    /\ LET dfs_predictions == predict_all(tutorial3.models, tutorial3.labels,
                                          tutorial3.df_X_test)
       IN  tutorial3' =
            [tutorial3 EXCEPT
                !.cell = "optimize",
                !.label = last_label(tutorial3.labels),
                !.df_predictions =
                    [dfs |-> dfs_predictions,
                     df |-> concat_series(dfs_predictions, tutorial3.df_X_test)]]

\* models_cv[label] = model, for the grid search.
OptimizeClassifiers ==
    /\ Tutorial3Cell("optimize")
    /\ tutorial3' =
        [tutorial3 EXCEPT
            !.cell = "predict cv",
            !.label = last_label(tutorial3.labels),
            !.models_cv = fit_models(GridSearchCV, tutorial3.labels,
                                     tutorial3.df_X_train, tutorial3.df_y_train)]

\* dfs_predictions_cv[label] = ...
\* df_predictions_cv = pd.concat(dfs_predictions, axis=1)
PredictOptimized ==
    /\ Tutorial3Cell("predict cv")
    /\ LET dfs_predictions_cv == predict_all(tutorial3.models_cv, tutorial3.labels,
                                             tutorial3.df_X_test)
       IN  tutorial3' =
            [tutorial3 EXCEPT
                !.cell = "brier cv",
                !.label = last_label(tutorial3.labels),
                !.df_predictions_cv =
                    [dfs |-> dfs_predictions_cv,
                     df |-> concat_series(tutorial3.df_predictions.dfs,
                                          tutorial3.df_X_test)]]

\* brier_score_loss(y_true=df_y_test['scores'], y_prob=df_predictions_cv['scores'])
BrierOptimized ==
    /\ Tutorial3Cell("brier cv")
    /\ tutorial3' =
        [tutorial3 EXCEPT
            !.cell = "final",
            !.brier_cv =
                brier_score_loss(
                    named_series(tutorial3.df_y_test, "scores").values,
                    named_series(tutorial3.df_predictions_cv.df, "scores").values)]

\* model_scores_final = XGBClassifier(..., n_estimators=100, max_depth=4)
\* model_scores_final.fit(X=df_X_train[features], y=df_y_train[label])
FitFinal ==
    /\ Tutorial3Cell("final")
    /\ \E label \in tutorial3.label :
        tutorial3' =
            [tutorial3 EXCEPT
                !.cell = "done",
                !.model_scores_final =
                    fit_model(XGBClassifier(100, 4),
                              select(tutorial3.df_X_train, features_tutorial3),
                              named_series(tutorial3.df_y_train, label))]

NextTutorial3 ==
    \/ TrainBaseline
    \/ PredictBaseline
    \/ OptimizeClassifiers
    \/ PredictOptimized
    \/ BrierOptimized
    \/ FitFinal

SpecTutorial3 == InitTutorial3 /\ [][NextTutorial3]_vars

(***************************************************************************)
(* SpecPenaltyBox: the cell of tutorial 2 that flags the actions that      *)
(* start or end in the penalty box.  Lengths are compared in centimetres.  *)
(***************************************************************************)
MaxBoxActions == 1

\* (x > PITCH_LENGTH - 16.5) & (y > 13.85) & (y > PITCH_WIDTH - 13.85)
is_penalty_box(x, y) ==
    /\ 100 * x > 100 * PITCH_LENGTH - 1650
    /\ 100 * y > 1385
    /\ 100 * y > 100 * PITCH_WIDTH - 1385

\* df_actions[f'{side}_is_penalty_box'] for side in ['start', 'end']
add_is_penalty_box(actions) ==
    [k \in 1..Len(actions) |->
        ("start_is_penalty_box" :>
            is_penalty_box(actions[k].start_x, actions[k].start_y))
        @@ ("end_is_penalty_box" :>
            is_penalty_box(actions[k].end_x, actions[k].end_y))
        @@ actions[k]]

\* Locations on both sides of the lines of the penalty box.
BoxStarts == {88, 89, 105} \X {13, 14, 34, 54, 55}
BoxEnds == {<<50, 34>>, <<100, 10>>, <<100, 34>>, <<100, 60>>}

BoxTables ==
    {[k \in DOMAIN c |->
        Action(1, k, 1, "pass", 1,
               <<c[k][1][1], c[k][1][2], c[k][2][1], c[k][2][2]>>)] :
        c \in UNION {[1..n -> BoxStarts \X BoxEnds] : n \in Lengths(MaxBoxActions)}}

InitPenaltyBox ==
    /\ df_actions \in BoxTables
    /\ nr_actions = 0
    /\ cell = "actions"
    /\ df_features = NotComputed
    /\ features_match = NotComputed
    /\ df_scores = NotComputed
    /\ df_concedes = NotComputed
    /\ spadlstore = NoRuns
    /\ df_games = NoRuns
    /\ game_pos = NoRuns
    /\ features_h5 = NoRuns
    /\ labels_h5 = NoRuns
    /\ tutorial1 = NotComputed
    /\ tutorial3 = NotComputed
    /\ tutorial4 = NotComputed

IsPenaltyBox ==
    /\ cell = "actions"
    /\ cell' = "is_penalty_box"
    /\ df_actions' = add_is_penalty_box(df_actions)
    /\ UNCHANGED <<nr_actions, df_features, features_match, df_scores,
                   df_concedes, loopVars, tutorial1, tutorialVars>>

SpecPenaltyBox == InitPenaltyBox /\ [][IsPenaltyBox]_vars

(***************************************************************************)
(* The statements checked of the label functions (under Spec).             *)
(***************************************************************************)
IsShot(a) == a.type_name \in {"shot", "shot_penalty", "shot_freekick"}
IsGoal(a) == IsShot(a) /\ a.result_id = 1
IsOwnGoal(a) == IsShot(a) /\ a.result_id = 2

\* Some action of i..last is a goal of action i's team or an own goal of
\* another team.
ScoresOver(actions, i, last) ==
    \E j \in i..last :
        \/ IsGoal(actions[j]) /\ actions[j].team_id = actions[i].team_id
        \/ IsOwnGoal(actions[j]) /\ actions[j].team_id # actions[i].team_id

\* Some action of i..last is an own goal of action i's team or a goal of
\* another team.
ConcedesOver(actions, i, last) ==
    \E j \in i..last :
        \/ IsOwnGoal(actions[j]) /\ actions[j].team_id = actions[i].team_id
        \/ IsGoal(actions[j]) /\ actions[j].team_id # actions[i].team_id

ScoresComputed == df_scores # NotComputed
ConcedesComputed == df_concedes # NotComputed

\* C1: for every horizon H >= 1, label_scores marks action i as scores=true
\* exactly when some action of i..min(i+H-1, n-1) is a goal shot of action
\* i's team or an own-goal shot of another team.
C1_ScoresExactForEveryHorizon ==
    ScoresComputed =>
        \A i \in 1..Len(df_actions) :
            (df_scores[i]["scores"] = {TRUE})
                <=> ScoresOver(df_actions, i,
                               Min(i + nr_actions - 1, Len(df_actions)))

\* C1 as the code has it: the statement holds for every horizon H >= 2, and
\* with H = 1 every scores cell is missing.
C1_ScoresExactFromHorizon2 ==
    ScoresComputed =>
        \A i \in 1..Len(df_actions) :
            IF nr_actions >= 2
            THEN df_scores[i]["scores"] =
                    {ScoresOver(df_actions, i,
                                Min(i + nr_actions - 1, Len(df_actions)))}
            ELSE df_scores[i]["scores"] = NaN

\* C2: for every horizon H >= 1, label_concedes marks action i as
\* concedes=true exactly when some action of i..min(i+H-1, n-1) is an
\* own-goal shot of action i's team or a goal shot of another team.
C2_ConcedesExactForEveryHorizon ==
    ConcedesComputed =>
        \A i \in 1..Len(df_actions) :
            (df_concedes[i]["concedes"] = {TRUE})
                <=> ConcedesOver(df_actions, i,
                                 Min(i + nr_actions - 1, Len(df_actions)))

\* C2 as the code has it: the statement holds for every horizon H >= 2, and
\* with H = 1 every concedes cell is missing.
C2_ConcedesExactFromHorizon2 ==
    ConcedesComputed =>
        \A i \in 1..Len(df_actions) :
            IF nr_actions >= 2
            THEN df_concedes[i]["concedes"] =
                    {ConcedesOver(df_actions, i,
                                  Min(i + nr_actions - 1, Len(df_actions)))}
            ELSE df_concedes[i]["concedes"] = NaN

\* C3: the labels of an action with fewer than H actions remaining are the
\* labels over the real remaining actions of the match: the positions
\* shifted past the end and filled with the last row never change a label;
\* the final action scores iff it is itself a goal shot and concedes iff it
\* is itself an own-goal shot.
C3_TruncatedHorizonReadsOnlyTheMatch ==
    ConcedesComputed =>
        LET n == Len(df_actions)
        IN  \A i \in 1..n :
                (n - i + 1 < nr_actions) =>
                    /\ df_scores[i]["scores"] = {ScoresOver(df_actions, i, n)}
                    /\ df_concedes[i]["concedes"] = {ConcedesOver(df_actions, i, n)}
                    /\ (i = n) =>
                        /\ df_scores[i]["scores"] = {IsGoal(df_actions[n])}
                        /\ df_concedes[i]["concedes"] = {IsOwnGoal(df_actions[n])}

\* A match whose last action is a goal shot of the other team than the
\* action before it, labelled with a horizon past the end of the match.
C3_Witness ==
    LET n == Len(df_actions)
    IN  /\ ConcedesComputed
        /\ n >= 2
        /\ nr_actions > n
        /\ IsGoal(df_actions[n])
        /\ df_actions[n - 1].team_id # df_actions[n].team_id
        /\ df_scores[n]["scores"] = {TRUE}
        /\ df_scores[n - 1]["scores"] = {FALSE}
        /\ df_concedes[n - 1]["concedes"] = {TRUE}

(***************************************************************************)
(* The statements checked of the feature functions (under SpecFeatures).   *)
(***************************************************************************)
\* The attributes of an action that the window columns carry.
RawAttributes == Range(features_to_delay) \ {"time_played"}

Attribute(a, f) == IF f = "time_played" THEN time_played(a) ELSE a[f]

Slots == 1..(delays - 1)

\* C5: create_delayed_features gives, for every action i and every slot s
\* in 1..K-1, the attributes of action i-s when it exists and the missing
\* value for every attribute when it does not; it never wraps around and
\* gives a table also for a match shorter than K.
C5_DelayedSlotsArePrecedingActionsOrMissing ==
    (cell = "create_delayed_features") =>
        /\ Len(df_features) = Len(df_actions)
        /\ \A i \in 1..Len(df_actions), s \in Slots :
            \A f \in Range(features_to_delay) :
                df_features[i][ColName(f, s)] =
                    IF i - s >= 1 THEN {Attribute(df_actions[i - s], f)}
                    ELSE NaN

\* A match shorter than K, with a present and a missing slot.
C5_Witness ==
    /\ cell = "create_delayed_features"
    /\ Len(df_actions) = delays - 1
    /\ df_features[2]["team_id-1"] = {df_actions[1].team_id}
    /\ df_features[2]["team_id-2"] = NaN
    /\ df_features[1]["team_id-1"] = NaN

Coordinates == {"start_x", "start_y", "end_x", "end_y"}

Mirrored(a, f) ==
    IF f \in {"start_x", "end_x"} THEN PITCH_LENGTH - a[f]
    ELSE PITCH_WIDTH - a[f]

\* C6: after add_same_team and invert_coordinates, a present slot s >= 1 of
\* another team than slot 0 has x = PITCH_LENGTH - x and y = PITCH_WIDTH - y
\* of the action for start and end, and a present slot of slot 0's team has
\* the action's four coordinates.
C6_OpponentSlotsMirroredOnce ==
    (cell = "invert_coordinates") =>
        \A i \in 1..Len(df_actions), s \in Slots :
            (i - s >= 1) =>
                LET a == df_actions[i - s]
                IN  \A f \in Coordinates :
                        df_features[i][ColName(f, s)] =
                            IF a.team_id # df_actions[i].team_id
                            THEN {Mirrored(a, f)}
                            ELSE {a[f]}

\* A window with a slot of the other team and a slot of the same team.
C6_Witness ==
    /\ cell = "invert_coordinates"
    /\ Len(df_actions) >= 3
    /\ df_actions[3].team_id # df_actions[2].team_id
    /\ df_actions[3].team_id = df_actions[1].team_id
    /\ df_features[3]["start_x-1"] = {PITCH_LENGTH - df_actions[2].start_x}
    /\ df_features[3]["end_y-1"] = {PITCH_WIDTH - df_actions[2].end_y}
    /\ df_features[3]["start_x-2"] = {df_actions[1].start_x}

\* C7: the slot-0 attribute columns of row i of the table
\* create_features_match returns are action i's own attributes;
\* invert_coordinates never changes a slot-0 coordinate.
C7_SlotZeroIsTheActionItself ==
    /\ (features_match # NotComputed) =>
        /\ Len(features_match) = Len(df_actions)
        /\ \A i \in 1..Len(df_actions), f \in RawAttributes :
                features_match[i][ColName(f, 0)] = {df_actions[i][f]}
    /\ (cell \notin {"actions", "create_delayed_features", "add_same_team"}) =>
        \A i \in 1..Len(df_actions), f \in Coordinates :
            df_features[i][ColName(f, 0)] = {df_actions[i][f]}

\* A window whose slots 1 and 2 are both of the other team than slot 0.
C7_Witness ==
    /\ features_match # NotComputed
    /\ Len(df_actions) >= 3
    /\ df_actions[3].team_id # df_actions[2].team_id
    /\ df_actions[3].team_id # df_actions[1].team_id
    /\ features_match[3]["team-1"] = {FALSE}
    /\ features_match[3]["start_x-0"] = {df_actions[3].start_x}
    /\ features_match[3]["start_x-1"] # {df_actions[2].start_x}

Last(seq) == seq[Len(seq)]

\* C8: the feature row of action i is determined by actions i-K+1..i: it is
\* the row create_features_match gives to the last action of the match cut
\* to that window, and rows 0..i are the rows of the match cut after i.
C8_FeatureRowsReadNoLaterAction ==
    (features_match # NotComputed) =>
        \A i \in 1..Len(df_actions) :
            /\ features_match[i] =
                    Last(create_features_match(
                            SubSeq(df_actions, Max(1, i - delays + 1), i),
                            features_to_delay, delays))
            /\ SubSeq(features_match, 1, i) =
                    create_features_match(SubSeq(df_actions, 1, i),
                                          features_to_delay, delays)

\* A match in which actions follow action 0 and differ from it.
C8_Witness ==
    /\ features_match # NotComputed
    /\ Len(df_actions) >= 3
    /\ df_actions[2].team_id # df_actions[1].team_id
    /\ df_actions[3].start_x # df_actions[1].start_x
    /\ features_match[1]["team_id-1"] = NaN
    /\ features_match[2]["team_id-1"] = {df_actions[1].team_id}

(***************************************************************************)
(* The statements checked of the generation loop (under SpecLoop).         *)
(***************************************************************************)
Stored(r, game_id) == game_key(game_id) \in DOMAIN features_h5[r]

\* C4: the feature table and the label table the generation loop stores for
\* a game are a function of the actions of that game only: two runs whose
\* stores hold the same actions for a game store the same features and
\* labels for it, whatever the other game of the stores is.
C4_StoredTablesDependOnOwnGameOnly ==
    \A game_id \in GameIds :
        (/\ Stored(1, game_id)
         /\ Stored(2, game_id)
         /\ spadlstore[1][actions_key(game_id)]
                = spadlstore[2][actions_key(game_id)])
        => /\ features_h5[1][game_key(game_id)] = features_h5[2][game_key(game_id)]
           /\ labels_h5[1][game_key(game_id)] = labels_h5[2][game_key(game_id)]

\* Game 1 is stored by both runs; the second store holds other actions for
\* game 2 or does not hold game 2, and game 2 was generated before game 1
\* in the first run.
C4_Witness ==
    /\ Stored(1, 1)
    /\ Stored(2, 1)
    /\ Stored(1, 2)
    /\ df_games[1] = <<2, 1>>
    /\ \/ actions_key(2) \notin DOMAIN spadlstore[2]
       \/ /\ Stored(2, 2)
          /\ spadlstore[1][actions_key(2)] # spadlstore[2][actions_key(2)]
    /\ Len(features_h5[1][game_key(1)]) = MaxLoopActions
    /\ labels_h5[1][game_key(1)][1]["concedes"] = {TRUE}

\* C10: for a match of n actions the stored feature table and the stored
\* label table have n rows each, row i of both is the row of action i, and
\* the label table has the two boolean columns scores and concedes and no
\* other column.
C10_OneRowPerActionInActionOrder ==
    \A r \in Runs, game_id \in GameIds :
        Stored(r, game_id) =>
            LET actions == read_actions(spadlstore[r], game_id)
                features == features_h5[r][game_key(game_id)]
                labels == labels_h5[r][game_key(game_id)]
                n == Len(actions)
            IN  /\ Len(features) = n
                /\ Len(labels) = n
                /\ \A i \in 1..n :
                    /\ \A f \in RawAttributes :
                        features[i][ColName(f, 0)] = {actions[i][f]}
                    /\ DOMAIN labels[i] = {"scores", "concedes"}
                    /\ labels[i]["scores"] \in {{TRUE}, {FALSE}}
                    /\ labels[i]["concedes"] \in {{TRUE}, {FALSE}}
                    /\ labels[i]["scores"] =
                        {ScoresOver(actions, i, Min(i + loop_nr_actions - 1, n))}
                    /\ labels[i]["concedes"] =
                        {ConcedesOver(actions, i, Min(i + loop_nr_actions - 1, n))}

\* A stored game of two actions, a pass of team 1 and then a goal of team
\* 2: the rows of the two tables differ, each is the row of its action.
C10_Witness ==
    \E r \in Runs :
        /\ Stored(r, 1)
        /\ Len(spadlstore[r][actions_key(1)]) = 2
        /\ Len(features_h5[r][game_key(1)]) = 2
        /\ features_h5[r][game_key(1)][1]["type_name-0"] = {"pass"}
        /\ features_h5[r][game_key(1)][2]["type_name-0"] = {"shot"}
        /\ features_h5[r][game_key(1)][2]["type_name-1"] = {"pass"}
        /\ labels_h5[r][game_key(1)][1] =
                [scores |-> {FALSE}, concedes |-> {TRUE}]
        /\ labels_h5[r][game_key(1)][2] =
                [scores |-> {TRUE}, concedes |-> {FALSE}]

(***************************************************************************)
(* The statements checked of tutorial 1 (under SpecPipeline).              *)
(***************************************************************************)
DistinctGameIds ==
    \A p, q \in 1..Len(tutorial1.df_games) :
        (tutorial1.df_games[p] = tutorial1.df_games[q]) => (p = q)

\* The probabilities predicted from the features of action k of a game.
PredictedFrom(game_id, k) ==
    [c \in Range(columns_labels) |->
        [model |-> tutorial1.models[c],
         features |-> select(tutorial1.features_h5[game_key(game_id)],
                             columns_features)[k]]]

\* C9: when the game ids of df_games are distinct (each stored feature
\* table having one row for each action, in action order), row k stored
\* under game_<id> in predictions.h5 is the pair of probabilities predicted
\* from the features of action k of that game, and value() is given the
\* actions of the game and the probabilities of the same actions row by
\* row.
C9_PredictionsRowAlignedPerGame ==
    DistinctGameIds =>
        /\ (tutorial1.predictions_h5 # NotComputed) =>
            \A p \in 1..Len(tutorial1.df_games) :
                LET game_id == tutorial1.df_games[p]
                    actions == tutorial1.spadl_h5[actions_key(game_id)]
                    predictions == tutorial1.predictions_h5[game_key(game_id)]
                IN  /\ Len(predictions) = Len(actions)
                    /\ \A k \in 1..Len(actions) :
                        predictions[k] = PredictedFrom(game_id, k)
        /\ \A p \in 1..Len(tutorial1.dfs_values) :
                LET game_id == tutorial1.df_games[p]
                    actions == tutorial1.spadl_h5[actions_key(game_id)]
                    df_all == tutorial1.dfs_values[p]
                IN  /\ Len(df_all) = Len(actions)
                    /\ \A k \in 1..Len(actions) :
                        /\ \A f \in DOMAIN actions[k] :
                            df_all[k][f] = actions[k][f]
                        /\ df_all[k]["scores"] = PredictedFrom(game_id, k)["scores"]
                        /\ df_all[k]["concedes"] = PredictedFrom(game_id, k)["concedes"]
                        /\ df_all[k]["vaep_value"] =
                            [action |-> <<game_id, actions[k].time_seconds>>,
                             scores |-> PredictedFrom(game_id, k)["scores"],
                             concedes |-> PredictedFrom(game_id, k)["concedes"]]

\* Two games valued, listed by df_games in descending order of their ids
\* and of different numbers of actions.
C9_Witness ==
    /\ tutorial1.df_games = <<2, 1>>
    /\ Len(tutorial1.dfs_values) = 2
    /\ Len(tutorial1.spadl_h5[actions_key(1)]) = 2
    /\ Len(tutorial1.spadl_h5[actions_key(2)]) = 1
    /\ Len(tutorial1.predictions_h5[game_key(1)]) = 2
    /\ tutorial1.predictions_h5[game_key(1)][2]["scores"]["features"]["start_x_a0"]
            = tutorial1.spadl_h5[actions_key(1)][2].start_x
    /\ tutorial1.dfs_values[2][2]["start_x"]
            = tutorial1.spadl_h5[actions_key(1)][2].start_x

(***************************************************************************)
(* The statements checked of the derived features (under SpecFeatures).    *)
(***************************************************************************)
TypeNamesOf(actions) == {actions[k].type_name : k \in 1..Len(actions)}

\* C11: the table create_features_match returns has, for every action and
\* every action type, a one-hot indicator column for slot 0, set for the
\* type of the action and for no other type.
C11_SlotZeroOneHotPerActionType ==
    (features_match # NotComputed) =>
        \A i \in 1..Len(df_actions), t \in TypeNamesOf(df_actions) :
            \E c \in {t, ColName(t, 0)} :
                /\ c \in DOMAIN features_match[i]
                /\ features_match[i][c] =
                        {IF df_actions[i].type_name = t THEN 1 ELSE 0}

\* C11 as the code has it: add_action_type_dummies adds the indicator
\* columns, and create_delayed_features keeps the columns of
\* features_to_delay only, so that no column of the returned table is an
\* indicator of an action type.
C11_OneHotColumnsAreDropped ==
    (features_match # NotComputed) =>
        \A i \in 1..Len(df_actions), t \in TypeNamesOf(df_actions) :
            /\ add_action_type_dummies(df_actions)[i][t] =
                    (IF df_actions[i].type_name = t THEN 1 ELSE 0)
            /\ \A s \in 0..(delays - 1) :
                    {t, ColName(t, s)} \cap DOMAIN features_match[i] = {}

LocationFeatures ==
    {"start_x_norm", "start_y_norm", "end_x_norm", "end_y_norm",
     "start_distance_to_goal", "start_angle_to_goal",
     "end_distance_to_goal", "end_angle_to_goal",
     "diff_x", "diff_y", "distance_covered"}

SequenceFeatures ==
    {"xdiff_sequence_pre", "ydiff_sequence_pre", "time_sequence_pre",
     "xdiff_sequence_post", "ydiff_sequence_post"}

\* C12: every numeric derived feature of every row create_features_match
\* returns is a defined value, also in the rows of the first K-1 actions of
\* the match, whose older slots are missing.
C12_DerivedFeaturesAreDefined ==
    (features_match # NotComputed) =>
        \A i \in 1..Len(df_actions) :
            /\ \A s \in 0..(delays - 1), f \in LocationFeatures :
                    features_match[i][ColName(f, s)] # NaN
            /\ \A f \in SequenceFeatures : features_match[i][f] # NaN

\* C12 as the code has it: the features of a slot are missing exactly when
\* the slot is, and the sequence features when the oldest slot is.
C12_MissingSlotsGiveMissingFeatures ==
    (features_match # NotComputed) =>
        \A i \in 1..Len(df_actions) :
            /\ \A s \in 0..(delays - 1), f \in LocationFeatures :
                    (features_match[i][ColName(f, s)] = NaN) <=> (i - s < 1)
            /\ \A f \in SequenceFeatures :
                    (features_match[i][f] = NaN) <=> (i - (delays - 1) < 1)

Sides == {"start", "end"}

LocationsComputed ==
    cell \in {"add_location_features", "add_sequence_pre_features",
              "add_sequence_post_features"}

\* The angle to the goal that the claim gives for a slot at (x, y).
AngleToGoal(x, y) ==
    IF y = GOAL_Y THEN zero ELSE quotient(PITCH_LENGTH - x, abs(GOAL_Y - y))

AngleIsGuardedQuotient(table) ==
    \A i \in 1..Len(table), s \in 0..(delays - 1), side \in Sides :
        (i - s >= 1) =>
            \A x \in table[i][ColName(side \o "_x", s)],
               y \in table[i][ColName(side \o "_y", s)] :
                table[i][ColName(side \o "_angle_to_goal", s)]
                    = {AngleToGoal(x, y)}

\* C13: for every present slot and each side, the angle to the goal is
\* (PITCH_LENGTH - x) / |PITCH_WIDTH/2 - y| when y is not PITCH_WIDTH/2 and
\* is 0 when it is; nothing is divided by zero.
C13_AngleToGoalIsZeroAtGoalHeight ==
    /\ LocationsComputed => AngleIsGuardedQuotient(df_features)
    /\ (features_match # NotComputed) => AngleIsGuardedQuotient(features_match)

\* A shot that starts at the height of the centre of the goal, away from
\* the goal line, after a pass that starts elsewhere.
C13_Witness ==
    /\ features_match # NotComputed
    /\ Len(df_actions) >= 2
    /\ features_match[2]["start_y-0"] = {GOAL_Y}
    /\ features_match[2]["start_x-0"] = {90}
    /\ features_match[2]["start_angle_to_goal-0"] = {zero}
    /\ features_match[2]["start_y-1"] = {20}
    /\ features_match[2]["start_angle_to_goal-1"] = {[num |-> 95, den |-> 14]}

(***************************************************************************)
(* The statements checked of the time played (under SpecTime).             *)
(***************************************************************************)
TimePlayedComputed == cell = "add_time_played"

\* C14: the time_played of an action of period 2 at second 0 is greater
\* than the time_played of every action of period 1, whatever the seconds
\* played of that action are.
C14_SecondHalfStartsAfterFirstHalf ==
    TimePlayedComputed =>
        \A i, j \in 1..Len(df_actions) :
            (/\ df_actions[i].period_id = 2
             /\ df_actions[i].time_seconds = 0
             /\ df_actions[j].period_id = 1)
            => df_actions[i].time_played > df_actions[j].time_played

\* C14 as the code has it: the statement holds of the actions of period 1
\* within its 45 minutes, and an action of period 1 in added time has a
\* time_played that is not less than that of the start of period 2.
C14_SecondHalfStartsAfterRegularFirstHalf ==
    TimePlayedComputed =>
        \A i, j \in 1..Len(df_actions) :
            (/\ df_actions[i].period_id = 2
             /\ df_actions[i].time_seconds = 0
             /\ df_actions[j].period_id = 1)
            => ((df_actions[i].time_played > df_actions[j].time_played)
                    <=> (df_actions[j].time_seconds < 45 * 60))

Offset ==
    (1 :> 0) @@ (2 :> 45 * 60) @@ (3 :> (45 + 15) * 60)
    @@ (4 :> (45 + 15 + 15) * 60)

\* C15: time_played is time_seconds plus the offset of the period: 0 s for
\* period 1, 45*60 s for period 2, (45+15)*60 s for period 3 and
\* (45+15+15)*60 s for period 4; nice_time shows the same minute and second.
C15_TimePlayedIsSecondsPlusPeriodOffset ==
    /\ TimePlayedComputed =>
        \A i \in 1..Len(df_actions) :
            df_actions[i].time_played
                = df_actions[i].time_seconds + Offset[df_actions[i].period_id]
    /\ (cell # "actions") =>
        \A i \in 1..Len(df_actions) :
            LET played == df_actions[i].time_seconds
                            + Offset[df_actions[i].period_id]
            IN  df_actions[i].nice_time
                    = ToString(played \div 60) \o "m"
                        \o ToString(played % 60) \o "s"

\* An action of the second half of extra time after one of the first half
\* of the match.
C15_Witness ==
    /\ TimePlayedComputed
    /\ Len(df_actions) = 2
    /\ df_actions[1].period_id = 1
    /\ df_actions[2].period_id = 4
    /\ df_actions[2].time_seconds = 59
    /\ df_actions[2].time_played = 75 * 60 + 59
    /\ df_actions[2].nice_time = "75m59s"
    /\ df_actions[1].time_played = df_actions[1].time_seconds

\* The coordinate f of slot s of action i after normalization: mirrored
\* when the team of the slot is not the team of slot 0.
Normalized(i, s, f) ==
    IF df_actions[i - s].team_id # df_actions[i].team_id
    THEN Mirrored(df_actions[i - s], f)
    ELSE df_actions[i - s][f]

LocationOfSide(row, i, s, side) ==
    LET x == Normalized(i, s, side \o "_x")
        y == Normalized(i, s, side \o "_y")
    IN  /\ row[ColName(side \o "_x_norm", s)] = {quotient(x, PITCH_LENGTH)}
        /\ row[ColName(side \o "_y_norm", s)] = {quotient(y, PITCH_WIDTH)}
        /\ row[ColName(side \o "_distance_to_goal", s)] =
            {sqrt((PITCH_LENGTH - x) * (PITCH_LENGTH - x)
                  + (GOAL_Y - y) * (GOAL_Y - y))}

LocationOfSlot(row, i, s) ==
    LET diff_x == Normalized(i, s, "end_x") - Normalized(i, s, "start_x")
        diff_y == Normalized(i, s, "end_y") - Normalized(i, s, "start_y")
    IN  /\ \A side \in Sides : LocationOfSide(row, i, s, side)
        /\ row[ColName("diff_x", s)] = {diff_x}
        /\ row[ColName("diff_y", s)] = {diff_y}
        /\ row[ColName("distance_covered", s)] =
            {sqrt(diff_x * diff_x + diff_y * diff_y)}

\* C16: the location features of every present slot are those of its
\* normalized coordinates (mirrored when the team of the slot is not the
\* team of slot 0): x / PITCH_LENGTH, y / PITCH_WIDTH, the distance to
\* (PITCH_LENGTH, PITCH_WIDTH/2), end - start in x and y, and the distance
\* covered.
C16_LocationFeaturesOfNormalizedCoordinates ==
    /\ LocationsComputed =>
        \A i \in 1..Len(df_actions), s \in 0..(delays - 1) :
            (i - s >= 1) => LocationOfSlot(df_features[i], i, s)
    /\ (features_match # NotComputed) =>
        \A i \in 1..Len(df_actions), s \in 0..(delays - 1) :
            (i - s >= 1) => LocationOfSlot(features_match[i], i, s)

\* A pass of team 2 in slot 1 of a pass of team 1: the slot is mirrored,
\* and its movement is towards the own goal.
C16_Witness ==
    /\ features_match # NotComputed
    /\ Len(df_actions) >= 2
    /\ df_actions[1].team_id # df_actions[2].team_id
    /\ df_actions[1].start_x = 10
    /\ features_match[2]["start_x_norm-1"] = {[num |-> 19, den |-> 21]}
    /\ features_match[2]["diff_x-1"] = {-20}
    /\ features_match[2]["diff_x-0"] = {df_actions[2].end_x - df_actions[2].start_x}
    /\ features_match[2]["start_distance_to_goal-1"] = {sqrt(10 * 10 + 14 * 14)}

Oldest == delays - 1

SequencePreOf(row, i) ==
    /\ row["xdiff_sequence_pre"] =
        {df_actions[i].start_x - Normalized(i, Oldest, "start_x")}
    /\ row["ydiff_sequence_pre"] =
        {df_actions[i].start_y - Normalized(i, Oldest, "start_y")}
    /\ row["time_sequence_pre"] =
        {(df_actions[i].time_seconds + Offset[df_actions[i].period_id])
         - (df_actions[i - Oldest].time_seconds
            + Offset[df_actions[i - Oldest].period_id])}

SequencePostOf(row, i) ==
    /\ row["xdiff_sequence_post"] =
        {df_actions[i].end_x - Normalized(i, Oldest, "start_x")}
    /\ row["ydiff_sequence_post"] =
        {df_actions[i].end_y - Normalized(i, Oldest, "start_y")}

\* C17: for every action whose oldest slot is present, the sequence
\* features are those of slot 0 against the start of the oldest slot:
\* start minus start and the difference of time_played before the action,
\* end minus start after it; the coordinates of the oldest slot are the
\* normalized ones, mirrored when its team is not the team of slot 0.
C17_SequenceFeaturesAgainstOldestSlot ==
    /\ (cell \in {"add_sequence_pre_features", "add_sequence_post_features"}) =>
        \A i \in 1..Len(df_actions) :
            (i - Oldest >= 1) => SequencePreOf(df_features[i], i)
    /\ (cell = "add_sequence_post_features") =>
        \A i \in 1..Len(df_actions) :
            (i - Oldest >= 1) => SequencePostOf(df_features[i], i)
    /\ (features_match # NotComputed) =>
        \A i \in 1..Len(df_actions) :
            (i - Oldest >= 1) =>
                /\ SequencePreOf(features_match[i], i)
                /\ SequencePostOf(features_match[i], i)

\* The third action of a match, of period 2, whose oldest slot is a pass
\* of the other team in period 1: the slot is mirrored and 45 minutes and
\* 14 seconds earlier.
C17_Witness ==
    /\ features_match # NotComputed
    /\ Len(df_actions) >= 3
    /\ df_actions[1].team_id # df_actions[3].team_id
    /\ df_actions[1].start_x = 10
    /\ df_actions[3].start_x = 10
    /\ df_actions[2].start_x = 90
    /\ features_match[3]["xdiff_sequence_pre"] = {10 - 95}
    /\ features_match[3]["xdiff_sequence_post"] = {30 - 95}
    /\ features_match[3]["time_sequence_pre"] = {45 * 60 + 14}

SameTeamComputed ==
    cell \notin {"actions", "create_delayed_features"}

SameTeamFlags(table) ==
    \A i \in 1..Len(df_actions), s \in 1..(delays - 1) :
        table[i][ColName("team", s)] =
            {i - s >= 1 /\ df_actions[i - s].team_id = df_actions[i].team_id}

\* C18: for every action and every slot s in 1..delays-1 the flag team-s is
\* true exactly when the slot is present and its team is the team of slot 0;
\* the flag of a missing slot is false.
C18_SameTeamFlagTrueOnlyForPresentSameTeam ==
    /\ SameTeamComputed => SameTeamFlags(df_features)
    /\ (features_match # NotComputed) => SameTeamFlags(features_match)

\* add_same_team has run on a match whose second action is of the team of
\* the first: its slot 1 is flagged, the missing slots of the first action
\* and slot 2 of the second are not.
C18_Witness ==
    /\ cell = "add_same_team"
    /\ Len(df_actions) >= 3
    /\ df_actions[1].team_id = df_actions[2].team_id
    /\ df_actions[3].team_id # df_actions[2].team_id
    /\ df_features[1]["team-1"] = {FALSE}
    /\ df_features[2]["team-1"] = {TRUE}
    /\ df_features[2]["team-2"] = {FALSE}
    /\ df_features[3]["team-1"] = {FALSE}

InvertedComputed ==
    cell \notin {"actions", "create_delayed_features", "add_same_team"}

MissingSlotsStayMissing(table) ==
    \A i \in 1..Len(df_actions), s \in 1..(delays - 1) :
        (i - s < 1) =>
            \A f \in Coordinates : table[i][ColName(f, s)] = NaN

\* C19: the start and end coordinates of a missing slot (slot s >= 1 of an
\* action with fewer than s actions before it) are still missing after
\* invert_coordinates; no number such as PITCH_LENGTH or PITCH_WIDTH takes
\* their place.
C19_MissingCoordinatesStayMissing ==
    /\ InvertedComputed => MissingSlotsStayMissing(df_features)
    /\ (features_match # NotComputed) => MissingSlotsStayMissing(features_match)

\* invert_coordinates has run on a match: the slots 1 and 2 of its first
\* action are missing, their flags are false, so the inversion selects them.
C19_Witness ==
    /\ cell = "invert_coordinates"
    /\ Len(df_actions) >= 2
    /\ df_features[1]["team-1"] = {FALSE}
    /\ df_features[1]["team-2"] = {FALSE}
    /\ df_features[1]["start_x-1"] = NaN
    /\ df_features[1]["end_y-2"] = NaN
    /\ df_features[2]["start_x-1"] # NaN
    /\ df_features[2]["start_x-2"] = NaN

\* The malformed action tables of the claim: rows out of the order of
\* period and time, or a coordinate outside the pitch.
NonMonotonic(table) ==
    \E k \in 1..(Len(table) - 1) :
        \/ table[k + 1].period_id < table[k].period_id
        \/ /\ table[k + 1].period_id = table[k].period_id
           /\ table[k + 1].time_seconds < table[k].time_seconds

OutsidePitch(table) ==
    \E k \in 1..Len(table) :
        \/ \E f \in {"start_x", "end_x"} : table[k][f] \notin 0..PITCH_LENGTH
        \/ \E f \in {"start_y", "end_y"} : table[k][f] \notin 0..PITCH_WIDTH

Malformed(table) == NonMonotonic(table) \/ OutsidePitch(table)

Generated(r, game_id) ==
    \E k \in 1..game_pos[r] : df_games[r][k] = game_id

\* C20: a malformed action table (rows out of the order of period and
\* time, or a coordinate outside the pitch) is rejected: no feature rows
\* and no label rows are stored for its game.
C20_MalformedInputStoresNoRows ==
    \A r \in Runs, game_id \in GameIds :
        (/\ actions_key(game_id) \in DOMAIN spadlstore[r]
         /\ Malformed(spadlstore[r][actions_key(game_id)]))
        => /\ game_key(game_id) \notin DOMAIN features_h5[r]
           /\ game_key(game_id) \notin DOMAIN labels_h5[r]

\* C20 as the code has it: the loop stores one feature row and one label
\* row for every action of every game it has read, malformed or not.
C20_EveryGeneratedGameIsStored ==
    \A r \in Runs, game_id \in GameIds :
        Generated(r, game_id) =>
            /\ game_key(game_id) \in DOMAIN features_h5[r]
            /\ game_key(game_id) \in DOMAIN labels_h5[r]
            /\ Len(features_h5[r][game_key(game_id)])
                = Len(spadlstore[r][actions_key(game_id)])
            /\ Len(labels_h5[r][game_key(game_id)])
                = Len(spadlstore[r][actions_key(game_id)])

\* A game whose rows are out of the order of time, and a game with a row
\* outside the pitch, have been generated.
C20_ReachedOutOfOrder ==
    /\ Generated(1, 1)
    /\ NonMonotonic(spadlstore[1][actions_key(1)])
    /\ ~OutsidePitch(spadlstore[1][actions_key(1)])

C20_ReachedOutsidePitch ==
    /\ Generated(1, 1)
    /\ OutsidePitch(spadlstore[1][actions_key(1)])
    /\ ~NonMonotonic(spadlstore[1][actions_key(1)])

\* The names the naming convention gives to the features of the claim.
ConventionNames ==
    {ColName(side \o "_distance_to_goal", s) : side \in Sides, s \in 0..2}
    \cup {ColName(side \o "_angle_to_goal", s) : side \in Sides, s \in 0..2}
    \cup {ColName("team", s) : s \in 1..2}

ResultNames == {ColName("result_id", s) : s \in 0..2}

\* C21: every feature name that tutorials 3 and 4 select for training is a
\* column of every row of the table create_features_match returns with
\* delays = 3 and features_to_delay, and the names are those of the
\* convention '<feature>-<slot offset>'.
C21_TrainingFeaturesAreColumns ==
    /\ Range(features_tutorial3) = ConventionNames
    /\ Range(features_tutorial4) = ConventionNames \cup ResultNames
    /\ (features_match # NotComputed) =>
        \A i \in 1..Len(features_match) :
            /\ Range(features_tutorial3) \subseteq DOMAIN features_match[i]
            /\ Range(features_tutorial4) \subseteq DOMAIN features_match[i]

\* create_features_match has returned the table of a match of one action:
\* the columns of its missing slots are there, and hold no value.
C21_Witness ==
    /\ features_match # NotComputed
    /\ Len(features_match) = 1
    /\ "result_id-2" \in DOMAIN features_match[1]
    /\ features_match[1]["result_id-2"] = NaN
    /\ features_match[1]["result_id-0"] # NaN
    /\ "end_angle_to_goal-2" \in DOMAIN features_match[1]
    /\ features_match[1]["team-2"] = {FALSE}

Competition(game_id) ==
    LET p == CHOOSE p \in 1..Len(tutorial4.df_games) :
                tutorial4.df_games[p].game_id = game_id
    IN  tutorial4.df_games[p].competition_id

IsTestRow(row) == Competition(row.game_id) = TestCompetition

Indices(table) == [k \in 1..Len(table) |-> table[k]["index"]]

DataIsSplit ==
    tutorial4.cell \notin {"games", "load features", "load labels", "split"}

\* The rows of the table are in the set of their game only, as they are in
\* the table.
SplitByGame(table, train, test) ==
    /\ \A k \in 1..Len(table) :
        IF IsTestRow(table[k])
        THEN /\ table[k] \in Range(test)
             /\ table[k]["index"] \notin Range(Indices(train))
        ELSE /\ table[k] \in Range(train)
             /\ table[k]["index"] \notin Range(Indices(test))
    /\ Range(train) \cup Range(test) \subseteq Range(table)
    /\ Len(train) + Len(test) = Len(table)
    /\ unique(train, "game_id") \cap unique(test, "game_id") = {}

\* C22: the data of tutorial 4 is split by game: the rows of the games of
\* competition 795 are in df_X_test and df_y_test only, the rows of the
\* other games in df_X_train and df_y_train only; no row and no game is in
\* both sets, every row is in one, and the features and the labels of a
\* set are the same rows in the same order.
C22_SplitByGameKeepsRowsAligned ==
    DataIsSplit =>
        /\ SplitByGame(tutorial4.df_features,
                       tutorial4.df_X_train, tutorial4.df_X_test)
        /\ SplitByGame(tutorial4.df_labels,
                       tutorial4.df_y_train, tutorial4.df_y_test)
        /\ Len(tutorial4.df_features) = Len(tutorial4.df_labels)
        /\ \A k \in 1..Len(tutorial4.df_features) :
            tutorial4.df_features[k].game_id = tutorial4.df_labels[k].game_id
        /\ Indices(tutorial4.df_X_train) = Indices(tutorial4.df_y_train)
        /\ Indices(tutorial4.df_X_test) = Indices(tutorial4.df_y_test)

\* The data is split with a test game between two training games, or the
\* other way round: both sets have rows, and one has rows that are not
\* next to each other in df_features.
C22_Witness ==
    /\ DataIsSplit
    /\ Len(tutorial4.df_X_test) >= 2
    /\ Len(tutorial4.df_X_train) >= 2
    /\ \E k \in 1..(Len(tutorial4.df_X_train) - 1) :
        tutorial4.df_X_train[k + 1]["index"] > tutorial4.df_X_train[k]["index"] + 1

PredictionsAttached == tutorial4.cell \notin
    {"games", "load features", "load labels", "split", "train", "predict",
     "load actions", "attach"}

TestGames ==
    {tutorial4.df_games[p].game_id : p \in
        {p \in 1..Len(tutorial4.df_games) :
            tutorial4.df_games[p].competition_id = TestCompetition}}

\* The probability of the label predicted from the feature row that
\* features.h5 holds for the action of the row.
PredictedForAction(row, label) ==
    [model |-> tutorial4.models[label],
     features |-> select(tutorial4.features_h5[game_key(row.game_id)],
                         features_tutorial4)[row.action_id + 1]]

\* C23: every row of df_actions_predictions is an action of a test game
\* with the probabilities predicted from the feature row of that action;
\* the rows are the actions of the test games, each once, the games in
\* the order of df_games and the actions of a game in their order.
C23_TestActionsPairedWithOwnPredictions ==
    PredictionsAttached =>
        LET rows == tutorial4.df_actions_predictions
        IN  /\ \A k \in 1..Len(rows) :
                LET stored == tutorial4.spadl_h5[actions_key(rows[k].game_id)]
                IN  /\ rows[k].game_id \in TestGames
                    /\ rows[k].action_id + 1 \in 1..Len(stored)
                    /\ rows[k].time_seconds = stored[rows[k].action_id + 1].time_seconds
                    /\ rows[k].team_id = stored[rows[k].action_id + 1].team_id
                    /\ rows[k].type_id = stored[rows[k].action_id + 1].type_id
                    /\ \A label \in Range(labels_tutorial4) :
                        rows[k][label] = PredictedForAction(rows[k], label)
            /\ \A g \in TestGames :
                \A j \in 1..Len(tutorial4.spadl_h5[actions_key(g)]) :
                \E k \in 1..Len(rows) :
                    rows[k].game_id = g /\ rows[k].action_id + 1 = j
            /\ \A k, l \in 1..Len(rows) :
                (k < l) =>
                    \/ rows[k].game_id = rows[l].game_id
                       /\ rows[k].action_id < rows[l].action_id
                    \/ \E p, q \in 1..Len(tutorial4.df_games) :
                        /\ p < q
                        /\ tutorial4.df_games[p].game_id = rows[k].game_id
                        /\ tutorial4.df_games[q].game_id = rows[l].game_id

\* Both games 1 and 2 are test games, game 2 is listed before game 1 and
\* a training game is between them; the first action of game 1 (a goal)
\* is another action than the first of game 2 (a missed pass).
C23_Witness ==
    /\ PredictionsAttached
    /\ TestGames = {1, 2}
    /\ tutorial4.df_games[1].game_id = 2
    /\ tutorial4.df_games[2].game_id = 3
    /\ Len(tutorial4.df_actions_predictions) = 4
    /\ tutorial4.df_actions_predictions[1].game_id = 2
    /\ tutorial4.df_actions_predictions[3].game_id = 1
    /\ tutorial4.df_actions_predictions[3].scores
        # tutorial4.df_actions_predictions[1].scores

\* The step of run r wrote the entry of the game of its iteration in the
\* file and left every other entry as it was.
WroteOwnEntryOnly(r, before, after) ==
    LET own == game_key(df_games[r][game_pos[r] + 1])
    IN  /\ DOMAIN after = DOMAIN before \cup {own}
        /\ \A key \in DOMAIN before \ {own} : after[key] = before[key]

OnlyOwnEntriesWritten ==
    \A r \in Runs :
        IF game_pos'[r] # game_pos[r]
        THEN /\ WroteOwnEntryOnly(r, features_h5[r], features_h5'[r])
             /\ WroteOwnEntryOnly(r, labels_h5[r], labels_h5'[r])
        ELSE /\ features_h5'[r] = features_h5[r]
             /\ labels_h5'[r] = labels_h5[r]

Finished(r) == game_pos[r] = Len(df_games[r])

SameFilesInEveryOrder ==
    (Finished(1) /\ Finished(2)) =>
        /\ features_h5[1] = features_h5[2]
        /\ labels_h5[1] = labels_h5[2]

OptimizedPredicted == tutorial3.cell \in {"brier cv", "final", "done"}

\* The probabilities of the label that the model predicts for the rows of
\* the test set.
ProbabilitiesOf(model) ==
    [k \in 1..Len(tutorial3.df_X_test) |->
        [model |-> model,
         features |-> select(tutorial3.df_X_test, features_tutorial3)[k]]]

\* C25: df_predictions_cv holds for each enabled label the probabilities
\* that the grid-searched model models_cv[label] predicts for the test set,
\* and the Brier score of the section 'Optimize classifiers' is the one of
\* these probabilities, not of those of the baseline model.
C25_OptimizedModelIsEvaluated ==
    /\ OptimizedPredicted =>
        \A label \in Range(tutorial3.labels) :
            named_series(tutorial3.df_predictions_cv.df, label).values
                = ProbabilitiesOf(tutorial3.models_cv[label])
    /\ (tutorial3.cell \in {"final", "done"}) =>
        tutorial3.brier_cv.y_prob = ProbabilitiesOf(tutorial3.models_cv["scores"])

\* C25 as the code has it: df_predictions_cv is the concatenation of
\* dfs_predictions, the series of the baseline models, so that it is
\* df_predictions again and the score is the one of the baseline model.
C25_BaselineModelIsEvaluatedAgain ==
    /\ OptimizedPredicted =>
        /\ tutorial3.df_predictions_cv.df = tutorial3.df_predictions.df
        /\ \A label \in Range(tutorial3.labels) :
            /\ named_series(tutorial3.df_predictions_cv.df, label).values
                = ProbabilitiesOf(tutorial3.models[label])
            /\ [k \in 1..Len(tutorial3.df_X_test) |->
                    tutorial3.df_predictions_cv.dfs[label][k].value]
                = ProbabilitiesOf(tutorial3.models_cv[label])
    /\ (tutorial3.cell \in {"final", "done"}) =>
        tutorial3.brier_cv.y_prob = ProbabilitiesOf(tutorial3.models["scores"])

FinalFitted == tutorial3.cell = "done"

\* C29: model_scores_final is fit on the column 'scores' of the labels of
\* the training set, whichever labels are enabled.
C29_FinalModelFitOnScores ==
    FinalFitted =>
        tutorial3.model_scores_final.y = named_series(tutorial3.df_y_train, "scores")

\* C29 as the code has it: the model is fit on the column of the last
\* enabled label, which is 'scores' when 'scores' is the only one.
C29_FinalModelFitOnLastLabel ==
    FinalFitted =>
        LET last == tutorial3.labels[Len(tutorial3.labels)]
        IN  /\ tutorial3.model_scores_final.y
                = named_series(tutorial3.df_y_train, last)
            /\ (tutorial3.labels = <<"scores">>) =>
                tutorial3.model_scores_final.y.name = "scores"

\* The location is in the penalty box of the opponent:
\* x > PITCH_LENGTH - 16.5 and 13.85 < y < PITCH_WIDTH - 13.85.
InOpponentPenaltyBox(x, y) ==
    /\ 100 * x > 100 * PITCH_LENGTH - 1650
    /\ 1385 < 100 * y
    /\ 100 * y < 100 * PITCH_WIDTH - 1385

\* C26: for every action and each side, the flag <side>_is_penalty_box is
\* true exactly when the location of the side is in the penalty box of the
\* opponent.
C26_FlagIsPenaltyBox ==
    (cell = "is_penalty_box") =>
        \A k \in 1..Len(df_actions) :
            /\ df_actions[k].start_is_penalty_box
                = InOpponentPenaltyBox(df_actions[k].start_x, df_actions[k].start_y)
            /\ df_actions[k].end_is_penalty_box
                = InOpponentPenaltyBox(df_actions[k].end_x, df_actions[k].end_y)

\* C26 as the code has it: both bounds of y are bounds from below, so that
\* the flag is set for the locations beyond the far line of the box, up to
\* the side line, and for no location in the box.
C26_FlagIsBeyondTheBox ==
    (cell = "is_penalty_box") =>
        \A k \in 1..Len(df_actions) :
            /\ df_actions[k].start_is_penalty_box =
                (/\ 100 * df_actions[k].start_x > 100 * PITCH_LENGTH - 1650
                 /\ 100 * df_actions[k].start_y > 100 * PITCH_WIDTH - 1385)
            /\ df_actions[k].start_is_penalty_box =>
                ~InOpponentPenaltyBox(df_actions[k].start_x, df_actions[k].start_y)

\* The labels of the horizon of the state are true wherever the labels of
\* a shorter horizon are.
MonotoneInHorizon ==
    \A shorter \in 1..nr_actions :
        \A i \in 1..Len(df_actions) :
            /\ (label_scores(df_actions, shorter)[i]["scores"] = {TRUE})
                => (df_scores[i]["scores"] = {TRUE})
            /\ (label_concedes(df_actions, shorter)[i]["concedes"] = {TRUE})
                => (df_concedes[i]["concedes"] = {TRUE})

\* C27: the labels are monotone in the horizon: an action that scores
\* (concedes) with the horizon H1 scores (concedes) with every horizon
\* H2 >= H1; with the horizon 1 an action scores exactly when it is itself
\* a goal shot and concedes exactly when it is itself an own-goal shot.
C27_LabelsMonotoneInHorizon ==
    (ScoresComputed /\ ConcedesComputed) =>
        /\ MonotoneInHorizon
        /\ (nr_actions = 1) =>
            \A i \in 1..Len(df_actions) :
                /\ df_scores[i]["scores"] = {IsGoal(df_actions[i])}
                /\ df_concedes[i]["concedes"] = {IsOwnGoal(df_actions[i])}

\* C27 as the code has it: the labels are monotone in the horizon, and with
\* the horizon 1 every label is missing, so that no action scores or
\* concedes.
C27_LabelsMonotoneAndMissingAtHorizon1 ==
    (ScoresComputed /\ ConcedesComputed) =>
        /\ MonotoneInHorizon
        /\ (nr_actions = 1) =>
            \A i \in 1..Len(df_actions) :
                /\ df_scores[i]["scores"] = NaN
                /\ df_concedes[i]["concedes"] = NaN

InvertedTwice == cell = "invert_coordinates again"

\* The slots of the other team than the team of slot 0.
OpposingSlots ==
    {<<i, s>> \in (1..Len(df_actions)) \X (1..(delays - 1)) :
        i - s >= 1 /\ df_actions[i - s].team_id # df_actions[i].team_id}

OnMirrorAxis(a, f) ==
    IF f \in {"start_x", "end_x"} THEN 2 * a[f] = PITCH_LENGTH
    ELSE 2 * a[f] = PITCH_WIDTH

\* invert_coordinates is an involution: applied twice, every coordinate of a
\* present slot is the one before normalization, and the flags team-s are
\* as add_same_team set them.
InvertIsInvolution ==
    InvertedTwice =>
        /\ SameTeamFlags(df_features)
        /\ \A i \in 1..Len(df_actions), s \in 0..(delays - 1) :
            (i - s >= 1) =>
                \A f \in Coordinates :
                    df_features[i][ColName(f, s)] = {df_actions[i - s][f]}

RiskComputed == tutorial4.cell = "merge minutes"

PlayersOf(table) == {table[k].player_id : k \in 1..Len(table)}

\* C30: every player with a valued action in df_values has a row in
\* df_risk before the merge with the minutes played: the slice
\* df_risk[0:-1] removes no row of a player.
C30_EveryValuedPlayerHasARiskRow ==
    RiskComputed =>
        PlayersOf(tutorial4.df_values) \subseteq PlayersOf(tutorial4.df_risk)

\* C30 as the code has it: the pivot table of df_risk has no margins row,
\* and the slice removes the row of the player with the greatest
\* player_id.
C30_LastPlayerHasNoRiskRow ==
    RiskComputed =>
        LET players == PlayersOf(tutorial4.df_values)
            last == CHOOSE p \in players : \A q \in players : q <= p
        IN  PlayersOf(tutorial4.df_risk) = players \ {last}

====
